---- MODULE Spec2Model ----
(***************************************************************************)
(* A model of infinote's script.js: the viewport (pan/zoom) engine, the    *)
(* click/tap gesture classifier, the per-note interaction handlers and the *)
(* document (notes, maxZIndex).                                            *)
(*                                                                         *)
(* JavaScript numbers are modelled as exact rationals <<n, d>> (d > 0, in  *)
(* lowest terms), so two numbers are equal iff their pairs are equal.      *)
(* Every event handler of the script is an operator from a program state   *)
(* record s to the program state after the handler; an action of the model *)
(* is one dispatched event: the composition of the listeners it reaches,   *)
(* in propagation order.                                                   *)
(***************************************************************************)
EXTENDS Integers, Sequences, FiniteSets, TLC

(***************************************************************************)
(* Rational arithmetic                                                     *)
(***************************************************************************)
Abs(n) == IF n < 0 THEN -n ELSE n

RECURSIVE GCD(_, _)
GCD(a, b) == IF b = 0 THEN a ELSE GCD(b, a % b)

\* NaN: the result of arithmetic on undefined.  No handler divides by zero
\* (zoom >= MIN_ZOOM, lastPinchDistance > 0, note sizes > 0), so a zero
\* denominator only ever comes from a NaN operand.
NaN == <<0, 0>>
IsNaN(a) == a[2] = 0

Rat(n, d) ==
  IF d = 0 THEN NaN
  ELSE LET g == GCD(Abs(n), Abs(d))
           sg == IF d < 0 THEN -1 ELSE 1
       IN  <<(sg * n) \div g, (sg * d) \div g>>

I(n) == <<n, 1>>

\* the operands over their least common denominator (intermediate products
\* stay small)
LCD(a, b) == (a[2] \div GCD(a[2], b[2])) * b[2]
Over(a, l) == a[1] * (l \div a[2])

RAdd(a, b) ==
  IF IsNaN(a) \/ IsNaN(b) THEN NaN
  ELSE LET l == LCD(a, b) IN Rat(Over(a, l) + Over(b, l), l)
RSub(a, b) ==
  IF IsNaN(a) \/ IsNaN(b) THEN NaN
  ELSE LET l == LCD(a, b) IN Rat(Over(a, l) - Over(b, l), l)
RMul(a, b) ==
  IF IsNaN(a) \/ IsNaN(b) THEN NaN
  ELSE LET g1 == GCD(Abs(a[1]), b[2])
           g2 == GCD(Abs(b[1]), a[2])
       IN  Rat((a[1] \div g1) * (b[1] \div g2), (a[2] \div g2) * (b[2] \div g1))
RDiv(a, b) ==
  IF IsNaN(a) \/ IsNaN(b) \/ b[1] = 0 THEN NaN
  ELSE RMul(a, Rat(b[2], b[1]))
\* comparisons: false when either side is NaN
RLt(a, b) ==
  /\ ~IsNaN(a) /\ ~IsNaN(b)
  /\ LET l == LCD(a, b) IN Over(a, l) < Over(b, l)
RLe(a, b) ==
  /\ ~IsNaN(a) /\ ~IsNaN(b)
  /\ LET l == LCD(a, b) IN Over(a, l) <= Over(b, l)
\* Math.max, Math.min: NaN when either argument is NaN
RMax(a, b) == IF IsNaN(a) \/ IsNaN(b) THEN NaN ELSE IF RLt(a, b) THEN b ELSE a
RMin(a, b) == IF IsNaN(a) \/ IsNaN(b) THEN NaN ELSE IF RLt(b, a) THEN b ELSE a

\* Math.round: the nearest integer, halves rounded towards +Infinity
MathRound(a) ==
  IF IsNaN(a) THEN NaN ELSE I((2 * a[1] + a[2]) \div (2 * a[2]))

\* Math.min(...xs) and Math.max(...xs) over a non-empty set of numbers
RMinOf(S) ==
  IF \E a \in S : IsNaN(a) THEN NaN
  ELSE CHOOSE a \in S : \A b \in S : RLe(a, b)
RMaxOf(S) ==
  IF \E a \in S : IsNaN(a) THEN NaN
  ELSE CHOOSE a \in S : \A b \in S : RLe(b, a)

\* Math.sqrt, on the perfect squares the touch inputs are drawn from
\* (hi bounds the root: sqrt(dx*dx + dy*dy) <= |dx| + |dy|)
IsSquare(n, hi) == \E r \in 0..hi : r * r = n
Sqrt(n, hi) == CHOOSE r \in 0..hi : r * r = n

(***************************************************************************)
(* Constants of script.js                                                  *)
(***************************************************************************)
MIN_ZOOM == <<1, 10>>
MAX_ZOOM == <<5, 1>>
ZOOM_FACTOR == <<1, 20>>
CLICK_DELAY == 300
DOUBLE_TAP_DELAY == 300
DOUBLE_TAP_DISTANCE == 40
TAP_MAX_DURATION == 250
TAP_MAX_MOVE == 10
NOTE_DRAG_THRESHOLD == 5
NOTE_TOUCH_DRAG_THRESHOLD == 10
CLICK_MOVE_THRESHOLD == 5
MIN_NOTE_SIZE == 150
RESIZE_HANDLE == 40
GRID_SIZE == 10
DEFAULT_COLOR == 3
FOCUS_DELAY == 100
PADDING == <<1, 5>>

\* null, for the values that are objects or references
Null == [isNull |-> TRUE]
\* null, where JSON holds it for a number: in arithmetic it is 0
\* (ToNumber(null)), but it is not the number 0
JNull == <<0, 2>>
\* null, for a timer handle (a deadline >= 0 when armed)
NoTimer == -1
\* null, for a reference to a note (note ids are >= 1)
NoNote == 0

Canvas == [id |-> NoNote, part |-> "canvas"]


(***************************************************************************)
(* Program state.  Each variable is the script's variable of that name;    *)
(* noteMouseData, noteTouchData and originalColor are the closure          *)
(* variables of renderNote, one per rendered note; paletteShow, focused    *)
(* and rendered are the parts of the DOM the script reads back.            *)
(***************************************************************************)
VARIABLES
  state, currentNote, isResizingNote, isDraggingNote, noteDragData,
  noteResizeData, clickTimer, clickPosition, lastPinchDistance, isPinching,
  isTouchPanning, touchPanStart, touchLastPan, lastPinchCenter, lastTapTime,
  lastTapX, lastTapY, tapStartTime, tapStartX, tapStartY, tapMoved,
  tapCreateNoteTimer, tapCreateNotePosition, doubleTapDetected,
  noteMouseData, noteTouchData, originalColor, paletteShow, focused, rendered,
  idb, ls, dbUp, lsUp, backup,
  \* the environment: clock, pending timeouts, viewport size, pointer state
  now, timers, viewportRect, nextId, mouse, fingers,
  \* history: the last lift of the last finger, the last dispatched event
  \* and its input, and the event budgets
  tap, lastOp, ev, budget

vars ==
  <<state, currentNote, isResizingNote, isDraggingNote, noteDragData,
    noteResizeData, clickTimer, clickPosition, lastPinchDistance, isPinching,
    isTouchPanning, touchPanStart, touchLastPan, lastPinchCenter, lastTapTime,
    lastTapX, lastTapY, tapStartTime, tapStartX, tapStartY, tapMoved,
    tapCreateNoteTimer, tapCreateNotePosition, doubleTapDetected,
    noteMouseData, noteTouchData, originalColor, paletteShow, focused,
    rendered, idb, ls, dbUp, lsUp, backup, now, timers, viewportRect, nextId,
    mouse, fingers,
    tap, lastOp, ev, budget>>

\* The program state as one record, threaded through the handlers.
Cur ==
  [state |-> state, currentNote |-> currentNote,
   isResizingNote |-> isResizingNote, isDraggingNote |-> isDraggingNote,
   noteDragData |-> noteDragData, noteResizeData |-> noteResizeData,
   clickTimer |-> clickTimer, clickPosition |-> clickPosition,
   lastPinchDistance |-> lastPinchDistance, isPinching |-> isPinching,
   isTouchPanning |-> isTouchPanning, touchPanStart |-> touchPanStart,
   touchLastPan |-> touchLastPan, lastPinchCenter |-> lastPinchCenter,
   lastTapTime |-> lastTapTime, lastTapX |-> lastTapX, lastTapY |-> lastTapY,
   tapStartTime |-> tapStartTime, tapStartX |-> tapStartX,
   tapStartY |-> tapStartY, tapMoved |-> tapMoved,
   tapCreateNoteTimer |-> tapCreateNoteTimer,
   tapCreateNotePosition |-> tapCreateNotePosition,
   doubleTapDetected |-> doubleTapDetected, noteMouseData |-> noteMouseData,
   noteTouchData |-> noteTouchData, originalColor |-> originalColor,
   paletteShow |-> paletteShow, focused |-> focused, rendered |-> rendered,
   idb |-> idb, ls |-> ls, dbUp |-> dbUp, lsUp |-> lsUp, backup |-> backup,
   now |-> now, timers |-> timers,
   viewportRect |-> viewportRect, nextId |-> nextId]

Commit(s) ==
  /\ state' = s.state
  /\ currentNote' = s.currentNote
  /\ isResizingNote' = s.isResizingNote
  /\ isDraggingNote' = s.isDraggingNote
  /\ noteDragData' = s.noteDragData
  /\ noteResizeData' = s.noteResizeData
  /\ clickTimer' = s.clickTimer
  /\ clickPosition' = s.clickPosition
  /\ lastPinchDistance' = s.lastPinchDistance
  /\ isPinching' = s.isPinching
  /\ isTouchPanning' = s.isTouchPanning
  /\ touchPanStart' = s.touchPanStart
  /\ touchLastPan' = s.touchLastPan
  /\ lastPinchCenter' = s.lastPinchCenter
  /\ lastTapTime' = s.lastTapTime
  /\ lastTapX' = s.lastTapX
  /\ lastTapY' = s.lastTapY
  /\ tapStartTime' = s.tapStartTime
  /\ tapStartX' = s.tapStartX
  /\ tapStartY' = s.tapStartY
  /\ tapMoved' = s.tapMoved
  /\ tapCreateNoteTimer' = s.tapCreateNoteTimer
  /\ tapCreateNotePosition' = s.tapCreateNotePosition
  /\ doubleTapDetected' = s.doubleTapDetected
  /\ noteMouseData' = s.noteMouseData
  /\ noteTouchData' = s.noteTouchData
  /\ originalColor' = s.originalColor
  /\ paletteShow' = s.paletteShow
  /\ focused' = s.focused
  /\ rendered' = s.rendered
  /\ idb' = s.idb
  /\ ls' = s.ls
  /\ dbUp' = s.dbUp
  /\ lsUp' = s.lsUp
  /\ backup' = s.backup
  /\ now' = s.now
  /\ timers' = s.timers
  /\ viewportRect' = s.viewportRect
  /\ nextId' = s.nextId

XY(x, y) == [x |-> x, y |-> y]

\* let state = {...}: the default document (script.js lines 2-11)
DefaultState ==
  [zoom |-> I(1), panX |-> I(0), panY |-> I(0), notes |-> <<>>,
   isDragging |-> FALSE, dragStart |-> XY(0, 0), lastPan |-> XY(I(0), I(0)),
   maxZIndex |-> 1]

(***************************************************************************)
(* Notes                                                                   *)
(***************************************************************************)
NoteIds(s) == {s.state.notes[i].id : i \in 1..Len(s.state.notes)}
NoteOf(s, id) ==
  s.state.notes[CHOOSE i \in 1..Len(s.state.notes) : s.state.notes[i].id = id]
HasNote(s, id) == id \in NoteIds(s)

\* an assignment to the fields of the note object with this id; a note that
\* was removed from state.notes is a detached object, unseen by the document
SetNote(s, id, f(_)) ==
  [s EXCEPT !.state.notes =
     [i \in 1..Len(@) |-> IF @[i].id = id THEN f(@[i]) ELSE @[i]]]

\* container.getBoundingClientRect(): the note's rectangle in screen space
NoteRect(s, n) ==
  [left |-> RAdd(RMul(n.x, s.state.zoom), s.state.panX),
   top |-> RAdd(RMul(n.y, s.state.zoom), s.state.panY),
   width |-> RMul(n.width, s.state.zoom),
   height |-> RMul(n.height, s.state.zoom)]

InRect(r, x, y) ==
  /\ RLe(r.left, I(x)) /\ RLt(I(x), RAdd(r.left, r.width))
  /\ RLe(r.top, I(y)) /\ RLt(I(y), RAdd(r.top, r.height))

\* the rendered notes under a screen point
NotesAt(s, x, y) ==
  {i \in 1..Len(s.state.notes) : InRect(NoteRect(s, s.state.notes[i]), x, y)}

\* document.elementFromPoint / the target of a pointer event at (x, y): the
\* note container stacked highest (style.zIndex) under the point, else the
\* viewport/world
ElementFromPoint(s, x, y) ==
  LET at == NotesAt(s, x, y)
  IN  IF at = {} THEN NoNote
      ELSE LET top == CHOOSE i \in at :
                        \A j \in at :
                          \/ s.state.notes[j].zIndex < s.state.notes[i].zIndex
                          \/ (s.state.notes[j].zIndex = s.state.notes[i].zIndex
                              /\ j <= i)
           IN  s.state.notes[top].id

\* x > rect.width - 40 && y > rect.height - 40 (lines 895, 925, 1038)
InResizeHandle(s, n, cx, cy) ==
  LET rect == NoteRect(s, n)
      x == RSub(I(cx), rect.left)
      y == RSub(I(cy), rect.top)
  IN  /\ RLt(RSub(rect.width, I(RESIZE_HANDLE)), x)
      /\ RLt(RSub(rect.height, I(RESIZE_HANDLE)), y)

(***************************************************************************)
(* Persistence and timers.  idb is the record of the primary store and ls  *)
(* the entry of the fallback store (Null: none); dbUp and lsUp tell        *)
(* whether a request to that store succeeds.                               *)
(***************************************************************************)
\* JSON.stringify of a number: NaN is written as null
JsonNumber(v) == IF IsNaN(v) THEN JNull ELSE v

\* JSON.parse(JSON.stringify(doc)) of a document
Stringify(doc) ==
  [doc EXCEPT
     !.zoom = JsonNumber(@), !.panX = JsonNumber(@), !.panY = JsonNumber(@),
     !.lastPan = [x |-> JsonNumber(@.x), y |-> JsonNumber(@.y)],
     !.notes = [i \in 1..Len(@) |->
                  [@[i] EXCEPT !.x = JsonNumber(@), !.y = JsonNumber(@),
                               !.width = JsonNumber(@),
                               !.height = JsonNumber(@)]]]

\* function saveToIndexedDB(data): store.put clones the whole document
saveToIndexedDB(s) == [s EXCEPT !.idb = s.state]

saveState_NoFallback(s) == IF s.dbUp THEN saveToIndexedDB(s) ELSE s

\* function saveState(): the fallback store is written when the primary
\* write fails, and nothing is when that fails too
saveState(s) ==
  IF s.dbUp THEN saveToIndexedDB(s)
  ELSE IF s.lsUp THEN [s EXCEPT !.ls = Stringify(s.state)]
  ELSE s

\* setTimeout(callback, delay): a pending timeout, identified by its kind and
\* deadline; dbl marks the timeouts of the taps of a double tap (history)
setTimeout(s, kind, delay, id) ==
  [s EXCEPT !.timers =
     @ \cup {[kind |-> kind, at |-> s.now + delay, id |-> id, dbl |-> FALSE]}]

clearTimeout(s, kind, handle) ==
  [s EXCEPT !.timers = {t \in @ : ~(t.kind = kind /\ t.at = handle)}]


(***************************************************************************)
(* Viewport: zoom clamp, coordinate transform, resetView                   *)
(***************************************************************************)
\* the clamp without its upper limit
ClampZoom_NoMax(z) == RMax(MIN_ZOOM, z)

\* Math.max(MIN_ZOOM, Math.min(MAX_ZOOM, z)) (lines 359, 410, 1480)
ClampZoom(z) == RMax(MIN_ZOOM, RMin(MAX_ZOOM, z))

\* (screen - pan) / zoom (lines 354, 422, 686)
ToWorld(screen, pan, zoom) == RDiv(RSub(screen, pan), zoom)

\* function resetView()
resetView_NoPadding(s) ==
  LET ns == s.state.notes
      idx == 1..Len(ns)
      minX == RMinOf({ns[i].x : i \in idx})
      minY == RMinOf({ns[i].y : i \in idx})
      maxX == RMaxOf({RAdd(ns[i].x, ns[i].width) : i \in idx})
      maxY == RMaxOf({RAdd(ns[i].y, ns[i].height) : i \in idx})
      centerX == RDiv(RAdd(minX, maxX), I(2))
      centerY == RDiv(RAdd(minY, maxY), I(2))
      totalWidth == RSub(maxX, minX)
      totalHeight == RSub(maxY, minY)
      viewportWidth == I(s.viewportRect.width)
      viewportHeight == I(s.viewportRect.height)
      zoomToFitWidth ==
        RDiv(viewportWidth, totalWidth)
      zoomToFitHeight ==
        RDiv(viewportHeight, totalHeight)
      fitZoom == RMin(zoomToFitWidth, zoomToFitHeight)
      z == ClampZoom(fitZoom)
  IN  saveState(
        IF Len(ns) = 0
        THEN [s EXCEPT !.state.zoom = I(1), !.state.panX = I(0),
                       !.state.panY = I(0)]
        ELSE [s EXCEPT !.state.zoom = z,
               !.state.panX = RSub(RDiv(viewportWidth, I(2)), RMul(centerX, z)),
               !.state.panY = RSub(RDiv(viewportHeight, I(2)), RMul(centerY, z))])

resetView_FitMax(s) ==
  LET ns == s.state.notes
      idx == 1..Len(ns)
      minX == RMinOf({ns[i].x : i \in idx})
      minY == RMinOf({ns[i].y : i \in idx})
      maxX == RMaxOf({RAdd(ns[i].x, ns[i].width) : i \in idx})
      maxY == RMaxOf({RAdd(ns[i].y, ns[i].height) : i \in idx})
      centerX == RDiv(RAdd(minX, maxX), I(2))
      centerY == RDiv(RAdd(minY, maxY), I(2))
      totalWidth == RSub(maxX, minX)
      totalHeight == RSub(maxY, minY)
      viewportWidth == I(s.viewportRect.width)
      viewportHeight == I(s.viewportRect.height)
      zoomToFitWidth ==
        RDiv(RMul(viewportWidth, RSub(I(1), PADDING)), totalWidth)
      zoomToFitHeight ==
        RDiv(RMul(viewportHeight, RSub(I(1), PADDING)), totalHeight)
      fitZoom == RMax(zoomToFitWidth, zoomToFitHeight)
      z == ClampZoom(fitZoom)
  IN  saveState(
        IF Len(ns) = 0
        THEN [s EXCEPT !.state.zoom = I(1), !.state.panX = I(0),
                       !.state.panY = I(0)]
        ELSE [s EXCEPT !.state.zoom = z,
               !.state.panX = RSub(RDiv(viewportWidth, I(2)), RMul(centerX, z)),
               !.state.panY = RSub(RDiv(viewportHeight, I(2)), RMul(centerY, z))])

resetView(s) ==
  LET ns == s.state.notes
      idx == 1..Len(ns)
      minX == RMinOf({ns[i].x : i \in idx})
      minY == RMinOf({ns[i].y : i \in idx})
      maxX == RMaxOf({RAdd(ns[i].x, ns[i].width) : i \in idx})
      maxY == RMaxOf({RAdd(ns[i].y, ns[i].height) : i \in idx})
      centerX == RDiv(RAdd(minX, maxX), I(2))
      centerY == RDiv(RAdd(minY, maxY), I(2))
      totalWidth == RSub(maxX, minX)
      totalHeight == RSub(maxY, minY)
      viewportWidth == I(s.viewportRect.width)
      viewportHeight == I(s.viewportRect.height)
      zoomToFitWidth ==
        RDiv(RMul(viewportWidth, RSub(I(1), PADDING)), totalWidth)
      zoomToFitHeight ==
        RDiv(RMul(viewportHeight, RSub(I(1), PADDING)), totalHeight)
      fitZoom == RMin(zoomToFitWidth, zoomToFitHeight)
      z == ClampZoom(fitZoom)
  IN  saveState(
        IF Len(ns) = 0
        THEN [s EXCEPT !.state.zoom = I(1), !.state.panX = I(0),
                       !.state.panY = I(0)]
        ELSE [s EXCEPT !.state.zoom = z,
               !.state.panX = RSub(RDiv(viewportWidth, I(2)), RMul(centerX, z)),
               !.state.panY = RSub(RDiv(viewportHeight, I(2)), RMul(centerY, z))])

(***************************************************************************)
(* Note creation                                                           *)
(***************************************************************************)
\* function bringToFront() of renderNote(note)
bringToFront_Reuse(s, id) ==
  LET z == s.state.maxZIndex
  IN  saveState(SetNote(s, id, LAMBDA n : [n EXCEPT !.zIndex = z]))

bringToFront(s, id) ==
  LET z == s.state.maxZIndex + 1
  IN  saveState(SetNote([s EXCEPT !.state.maxZIndex = z], id,
                        LAMBDA n : [n EXCEPT !.zIndex = z]))

\* noteElement.focus(): the focus listener of the note (lines 876-879)
focusNote(s, id) ==
  IF id \notin s.rendered \/ s.focused = id THEN s
  ELSE bringToFront([s EXCEPT !.focused = id], id)

\* renderNote(note): the closure variables of the new container
renderNote(s, note) ==
  [s EXCEPT !.rendered = @ \cup {note.id},
            !.noteMouseData = (note.id :> Null) @@ @,
            !.noteTouchData = (note.id :> Null) @@ @,
            !.originalColor = (note.id :> note.color) @@ @]

\* createNoteAtPosition placing the note at the screen coordinates
createNoteAtPosition_Screen(s, screenX, screenY) ==
  LET z == s.state.maxZIndex + 1
      note == [id |-> s.nextId, x |-> I(screenX), y |-> I(screenY),
               width |-> I(MIN_NOTE_SIZE), height |-> I(MIN_NOTE_SIZE),
               content |-> "", color |-> DEFAULT_COLOR, zIndex |-> z]
      s1 == [s EXCEPT !.state.maxZIndex = z,
                      !.state.notes = Append(@, note),
                      !.nextId = @ + 1]
  IN  setTimeout(saveState(renderNote(s1, note)), "focus", FOCUS_DELAY, note.id)

\* function createNoteAtPosition(screenX, screenY); the viewport's
\* getBoundingClientRect() has left = top = 0
createNoteAtPosition(s, screenX, screenY) ==
  LET worldX == ToWorld(I(screenX), s.state.panX, s.state.zoom)
      worldY == ToWorld(I(screenY), s.state.panY, s.state.zoom)
      z == s.state.maxZIndex + 1
      note == [id |-> s.nextId, x |-> worldX, y |-> worldY,
               width |-> I(MIN_NOTE_SIZE), height |-> I(MIN_NOTE_SIZE),
               content |-> "", color |-> DEFAULT_COLOR, zIndex |-> z]
      s1 == [s EXCEPT !.state.maxZIndex = z,
                      !.state.notes = Append(@, note),
                      !.nextId = @ + 1]
  IN  setTimeout(saveState(renderNote(s1, note)), "focus", FOCUS_DELAY, note.id)

(***************************************************************************)
(* Mouse handlers of the viewport                                          *)
(***************************************************************************)
OnCanvas(e) == e.target.part = "canvas"

\* function handleMouseDown(e)
handleMouseDown(s, e) ==
  IF ~OnCanvas(e) THEN s
  ELSE [s EXCEPT !.state.isDragging = TRUE,
                 !.state.dragStart = XY(e.x, e.y),
                 !.state.lastPan = XY(s.state.panX, s.state.panY)]

\* function handleMouseMove(e)
handleMouseMove(s, e) ==
  IF ~s.state.isDragging THEN s
  ELSE LET deltaX == e.x - s.state.dragStart.x
           deltaY == e.y - s.state.dragStart.y
       IN  [s EXCEPT !.state.panX = RAdd(s.state.lastPan.x, I(deltaX)),
                     !.state.panY = RAdd(s.state.lastPan.y, I(deltaY))]

\* the click test with || between the two axes
IsClick_EitherAxis(s, e) ==
  /\ \/ Abs(e.x - s.state.dragStart.x) < CLICK_MOVE_THRESHOLD
     \/ Abs(e.y - s.state.dragStart.y) < CLICK_MOVE_THRESHOLD
  /\ OnCanvas(e)
  /\ s.paletteShow = {}

\* deltaX < 5 && deltaY < 5 && target is the canvas && !isColorPickerOpen
IsClick(s, e) ==
  /\ Abs(e.x - s.state.dragStart.x) < CLICK_MOVE_THRESHOLD
  /\ Abs(e.y - s.state.dragStart.y) < CLICK_MOVE_THRESHOLD
  /\ OnCanvas(e)
  /\ s.paletteShow = {}

\* function handleMouseUp(e) (also the viewport's mouseleave listener)
handleMouseUp(s, e) ==
  IF ~s.state.isDragging THEN s
  ELSE LET s1 ==
             IF IsClick(s, e)
             THEN IF s.focused # NoNote
                  THEN [s EXCEPT !.focused = NoNote]
                  ELSE LET a == [s EXCEPT !.clickPosition = XY(e.x, e.y)]
                           b == IF a.clickTimer # NoTimer
                                THEN clearTimeout(a, "click", a.clickTimer)
                                ELSE a
                       IN  [setTimeout(b, "click", CLICK_DELAY, NoNote)
                              EXCEPT !.clickTimer = s.now + CLICK_DELAY]
             ELSE s
       IN  saveState([s1 EXCEPT !.state.isDragging = FALSE])

\* the callback of clickTimer (lines 312-315)
clickTimerFired(s) ==
  [createNoteAtPosition(s, s.clickPosition.x, s.clickPosition.y)
     EXCEPT !.clickTimer = NoTimer]

\* handleDoubleClick without the clearTimeout
handleDoubleClick_KeepTimer(s, e) ==
  IF ~OnCanvas(e) THEN s ELSE resetView(s)

\* function handleDoubleClick(e)
handleDoubleClick(s, e) ==
  IF ~OnCanvas(e) THEN s
  ELSE LET s1 == IF s.clickTimer # NoTimer
                 THEN [clearTimeout(s, "click", s.clickTimer)
                         EXCEPT !.clickTimer = NoTimer]
                 ELSE s
       IN  resetView(s1)

\* function handleWheel(e)
handleWheel(s, e) ==
  IF e.target.part = "textarea" /\ s.focused = e.target.id THEN s
  ELSE LET mouseX == I(e.x)
           mouseY == I(e.y)
           worldX == ToWorld(mouseX, s.state.panX, s.state.zoom)
           worldY == ToWorld(mouseY, s.state.panY, s.state.zoom)
           half == RDiv(RMul(ZOOM_FACTOR, s.state.zoom), I(2))
           zoomDelta == IF e.deltaY > 0 THEN RSub(I(0), half) ELSE half
           newZoom == ClampZoom(RAdd(s.state.zoom, zoomDelta))
       IN  saveState([s EXCEPT
             !.state.panX = RSub(mouseX, RMul(worldX, newZoom)),
             !.state.panY = RSub(mouseY, RMul(worldY, newZoom)),
             !.state.zoom = newZoom])


(***************************************************************************)
(* Touch handlers of the viewport.  A touch event e carries e.touches (the *)
(* fingers on the screen), e.changed (e.changedTouches) and e.target (the  *)
(* element the changed finger was put down on).                            *)
(***************************************************************************)
\* function getPinchDistance(touch1, touch2)
getPinchDistance(touch1, touch2) ==
  LET dx == touch1.x - touch2.x
      dy == touch1.y - touch2.y
  IN  Sqrt(dx * dx + dy * dy, Abs(dx) + Abs(dy))

PinchCenter(touch1, touch2) ==
  XY(RDiv(I(touch1.x + touch2.x), I(2)), RDiv(I(touch1.y + touch2.y), I(2)))

\* function handleTouchStart(e)
handleTouchStart(s, e) ==
  IF Len(e.touches) = 2
  THEN [s EXCEPT !.isPinching = TRUE,
                 !.isTouchPanning = FALSE,
                 !.lastPinchDistance = getPinchDistance(e.touches[1], e.touches[2]),
                 !.lastPinchCenter = PinchCenter(e.touches[1], e.touches[2])]
  ELSE IF Len(e.touches) = 1 /\ OnCanvas(e)
  THEN [s EXCEPT !.isTouchPanning = TRUE,
                 !.touchPanStart = XY(e.touches[1].x, e.touches[1].y),
                 !.touchLastPan = XY(s.state.panX, s.state.panY)]
  ELSE s

\* the pinch branch of handleTouchMove (lines 400-438)
PinchMove(s, e) ==
  LET pinchDistance == getPinchDistance(e.touches[1], e.touches[2])
      zoomRatio == RDiv(I(pinchDistance), I(s.lastPinchDistance))
      newZoom == ClampZoom(RMul(s.state.zoom, zoomRatio))
      center == PinchCenter(e.touches[1], e.touches[2])
      centerDeltaX == RSub(center.x, s.lastPinchCenter.x)
      centerDeltaY == RSub(center.y, s.lastPinchCenter.y)
      worldX == ToWorld(center.x, s.state.panX, s.state.zoom)
      worldY == ToWorld(center.y, s.state.panY, s.state.zoom)
      s1 == IF s.lastPinchDistance > 0
            THEN [s EXCEPT
                   !.state.panX =
                     RAdd(RSub(center.x, RMul(worldX, newZoom)), centerDeltaX),
                   !.state.panY =
                     RAdd(RSub(center.y, RMul(worldY, newZoom)), centerDeltaY),
                   !.state.zoom = newZoom,
                   !.lastPinchCenter = center]
            ELSE s
  IN  [s1 EXCEPT !.lastPinchDistance = pinchDistance]

\* function handleTouchMove(e)
handleTouchMove(s, e) ==
  IF s.isPinching /\ Len(e.touches) = 2 THEN PinchMove(s, e)
  ELSE IF s.isTouchPanning /\ Len(e.touches) = 1
  THEN LET deltaX == e.touches[1].x - s.touchPanStart.x
           deltaY == e.touches[1].y - s.touchPanStart.y
       IN  [s EXCEPT !.state.panX = RAdd(s.touchLastPan.x, I(deltaX)),
                     !.state.panY = RAdd(s.touchLastPan.y, I(deltaY))]
  ELSE s

\* function handleTouchEnd(e)
handleTouchEnd(s, e) ==
  LET s1 == IF s.isPinching
            THEN saveState([s EXCEPT !.isPinching = FALSE,
                                     !.lastPinchDistance = 0])
            ELSE s
      s2 == IF s1.isTouchPanning
            THEN saveState([s1 EXCEPT !.isTouchPanning = FALSE])
            ELSE s1
  IN  IF /\ Len(e.touches) = 1
         /\ ~s2.isPinching
         /\ ElementFromPoint(s2, e.touches[1].x, e.touches[1].y) = NoNote
      THEN [s2 EXCEPT !.isTouchPanning = TRUE,
                      !.touchPanStart = XY(e.touches[1].x, e.touches[1].y),
                      !.touchLastPan = XY(s2.state.panX, s2.state.panY)]
      ELSE s2

\* the double-tap test of handleTouchTap (lines 1499-1503)
IsDoubleTap(s, e) ==
  /\ s.now - s.lastTapTime < DOUBLE_TAP_DELAY
  /\ Abs(e.changed[1].x - s.lastTapX) < DOUBLE_TAP_DISTANCE
  /\ Abs(e.changed[1].y - s.lastTapY) < DOUBLE_TAP_DISTANCE

\* handleTouchTap without doubleTapDetected = true
handleTouchTap_NoFlag(s, e) ==
  IF Len(e.touches) > 0 THEN s
  ELSE IF IsDoubleTap(s, e)
  THEN LET s1 == IF s.tapCreateNoteTimer # NoTimer
                 THEN [clearTimeout(s, "tap", s.tapCreateNoteTimer)
                         EXCEPT !.tapCreateNoteTimer = NoTimer]
                 ELSE s
       IN  [resetView(s1)
              EXCEPT !.lastTapTime = 0, !.lastTapX = 0, !.lastTapY = 0]
  ELSE [s EXCEPT !.lastTapTime = s.now,
                 !.lastTapX = e.changed[1].x,
                 !.lastTapY = e.changed[1].y]

\* function handleTouchTap(e)
handleTouchTap(s, e) ==
  IF Len(e.touches) > 0 THEN s
  ELSE IF IsDoubleTap(s, e)
  THEN LET s1 == IF s.tapCreateNoteTimer # NoTimer
                 THEN [clearTimeout(s, "tap", s.tapCreateNoteTimer)
                         EXCEPT !.tapCreateNoteTimer = NoTimer]
                 ELSE s
       IN  [resetView([s1 EXCEPT !.doubleTapDetected = TRUE])
              EXCEPT !.lastTapTime = 0, !.lastTapX = 0, !.lastTapY = 0]
  ELSE [s EXCEPT !.lastTapTime = s.now,
                 !.lastTapX = e.changed[1].x,
                 !.lastTapY = e.changed[1].y]

\* function handleViewportTouchStart(e)
handleViewportTouchStart(s, e) ==
  IF Len(e.touches) # 1 THEN s
  ELSE [s EXCEPT !.tapStartTime = s.now,
                 !.tapMoved = FALSE,
                 !.tapStartX = e.touches[1].x,
                 !.tapStartY = e.touches[1].y]

\* function handleViewportTouchMove(e)
handleViewportTouchMove(s, e) ==
  IF Len(e.touches) # 1 THEN s
  ELSE LET dx == e.touches[1].x - s.tapStartX
           dy == e.touches[1].y - s.tapStartY
       IN  IF Abs(dx) > TAP_MAX_MOVE \/ Abs(dy) > TAP_MAX_MOVE
           THEN [s EXCEPT !.tapMoved = TRUE]
           ELSE s

\* handleViewportTouchEnd without its test of the duration
handleViewportTouchEnd_NoDuration(s, e) ==
  IF Len(e.changed) # 1 THEN s
  ELSE IF s.tapMoved THEN s
  ELSE IF ElementFromPoint(s, e.changed[1].x, e.changed[1].y) # NoNote THEN s
  ELSE LET a == [s EXCEPT !.tapCreateNotePosition =
                            XY(e.changed[1].x, e.changed[1].y)]
           b == IF a.tapCreateNoteTimer # NoTimer
                THEN clearTimeout(a, "tap", a.tapCreateNoteTimer)
                ELSE a
       IN  [setTimeout(b, "tap", DOUBLE_TAP_DELAY, NoNote)
              EXCEPT !.tapCreateNoteTimer = s.now + DOUBLE_TAP_DELAY]

\* function handleViewportTouchEnd(e)
handleViewportTouchEnd(s, e) ==
  IF Len(e.changed) # 1 THEN s
  ELSE IF s.tapMoved THEN s
  ELSE IF s.now - s.tapStartTime > TAP_MAX_DURATION THEN s
  ELSE IF ElementFromPoint(s, e.changed[1].x, e.changed[1].y) # NoNote THEN s
  ELSE LET a == [s EXCEPT !.tapCreateNotePosition =
                            XY(e.changed[1].x, e.changed[1].y)]
           b == IF a.tapCreateNoteTimer # NoTimer
                THEN clearTimeout(a, "tap", a.tapCreateNoteTimer)
                ELSE a
       IN  [setTimeout(b, "tap", DOUBLE_TAP_DELAY, NoNote)
              EXCEPT !.tapCreateNoteTimer = s.now + DOUBLE_TAP_DELAY]

\* the callback of tapCreateNoteTimer (lines 1554-1566)
tapTimerFired(s) ==
  LET s1 == IF ~s.doubleTapDetected
            THEN IF s.focused # NoNote
                 THEN [s EXCEPT !.focused = NoNote]
                 ELSE createNoteAtPosition(s, s.tapCreateNotePosition.x,
                                           s.tapCreateNotePosition.y)
            ELSE s
  IN  [s1 EXCEPT !.doubleTapDetected = FALSE, !.tapCreateNoteTimer = NoTimer]


(***************************************************************************)
(* Listeners of a rendered note (renderNote).  id is the note the closure  *)
(* was created for.                                                        *)
(***************************************************************************)
\* container 'mousedown' (lines 882-913)
containerMouseDown(s, id, e) ==
  LET s1 == bringToFront(s, id)
  IN  IF e.target.part \in {"colorBtn", "deleteBtn", "palette"} THEN s1
      ELSE IF HasNote(s1, id) /\ InResizeHandle(s1, NoteOf(s1, id), e.x, e.y)
      THEN [s1 EXCEPT !.isResizingNote = TRUE,
                      !.currentNote = id,
                      !.noteResizeData =
                        [startWidth |-> NoteOf(s1, id).width,
                         startHeight |-> NoteOf(s1, id).height,
                         startMouseX |-> e.x, startMouseY |-> e.y,
                         id |-> id]]
      ELSE s1

containerTouchStart_NoFront(s, id, e) ==
  IF Len(e.touches) # 1 THEN s
  ELSE LET touch == e.touches[1]
       IN  IF HasNote(s, id) /\ InResizeHandle(s, NoteOf(s, id), touch.x, touch.y)
           THEN [s EXCEPT !.isResizingNote = TRUE,
                          !.currentNote = id,
                          !.noteResizeData =
                            [startWidth |-> NoteOf(s, id).width,
                             startHeight |-> NoteOf(s, id).height,
                             startTouchX |-> touch.x, startTouchY |-> touch.y,
                             id |-> id]]
           ELSE s

\* container 'touchstart' (lines 916-942)
containerTouchStart(s, id, e) ==
  IF Len(e.touches) # 1 THEN s
  ELSE LET s1 == bringToFront(s, id)
           touch == e.touches[1]
       IN  IF HasNote(s1, id) /\ InResizeHandle(s1, NoteOf(s1, id), touch.x, touch.y)
           THEN [s1 EXCEPT !.isResizingNote = TRUE,
                           !.currentNote = id,
                           !.noteResizeData =
                             [startWidth |-> NoteOf(s1, id).width,
                              startHeight |-> NoteOf(s1, id).height,
                              startTouchX |-> touch.x, startTouchY |-> touch.y,
                              id |-> id]]
           ELSE s1

\* the interaction record of noteElement 'mousedown' / 'touchstart'
Tracking(s, id, x, y) ==
  LET rect == NoteRect(s, NoteOf(s, id))
  IN  [startX |-> x, startY |-> y,
       dragOffset |-> XY(RSub(I(x), rect.left), RSub(I(y), rect.top)),
       wasFocused |-> s.focused = id, hasMoved |-> FALSE, isDragging |-> FALSE]

\* noteElement 'mousedown' (lines 948-978)
noteMouseDown(s, id, e) ==
  IF s.isResizingNote THEN s
  ELSE IF s.focused = id THEN s
  ELSE [s EXCEPT !.noteMouseData[id] = Tracking(s, id, e.x, e.y)]

\* the promotion of a tracked press to a drag (lines 991-1001, 1076-1086)
StartDrag(s, id, data) ==
  [s EXCEPT !.isDraggingNote = TRUE,
            !.currentNote = id,
            !.noteDragData = [hasMoved |-> TRUE, dragOffset |-> data.dragOffset,
                              id |-> id]]

\* noteElement 'mousemove' (lines 980-1003)
noteMouseMove(s, id, e) ==
  LET d == s.noteMouseData[id]
  IN  IF d = Null THEN s
      ELSE IF /\ \/ Abs(e.x - d.startX) > NOTE_DRAG_THRESHOLD
                 \/ Abs(e.y - d.startY) > NOTE_DRAG_THRESHOLD
              /\ ~d.isDragging
      THEN StartDrag([s EXCEPT !.noteMouseData[id] =
                        [d EXCEPT !.isDragging = TRUE, !.hasMoved = TRUE]],
                     id, d)
      ELSE s

\* noteElement 'mouseup' (lines 1005-1019)
noteMouseUp(s, id, e) ==
  LET d == s.noteMouseData[id]
  IN  IF d = Null THEN s
      ELSE LET s1 == IF ~d.hasMoved /\ ~d.wasFocused THEN focusNote(s, id) ELSE s
           IN  [s1 EXCEPT !.noteMouseData[id] = Null]

\* noteElement 'touchstart' (lines 1025-1060)
noteTouchStart(s, id, e) ==
  IF s.isResizingNote \/ Len(e.touches) # 1 THEN s
  ELSE IF InResizeHandle(s, NoteOf(s, id), e.touches[1].x, e.touches[1].y) THEN s
  ELSE [s EXCEPT !.noteTouchData[id] =
                   Tracking(s, id, e.touches[1].x, e.touches[1].y)]

\* noteElement 'touchmove' (lines 1062-1090)
noteTouchMove(s, id, e) ==
  LET d == s.noteTouchData[id]
  IN  IF d = Null \/ Len(e.touches) # 1 THEN s
      ELSE IF /\ \/ Abs(e.touches[1].x - d.startX) > NOTE_TOUCH_DRAG_THRESHOLD
                 \/ Abs(e.touches[1].y - d.startY) > NOTE_TOUCH_DRAG_THRESHOLD
              /\ ~d.isDragging
      THEN StartDrag([s EXCEPT !.noteTouchData[id] =
                        [d EXCEPT !.isDragging = TRUE, !.hasMoved = TRUE]],
                     id, d)
      ELSE s

\* noteElement 'touchend' (lines 1092-1110)
noteTouchEnd(s, id, e) ==
  LET d == s.noteTouchData[id]
  IN  IF d = Null THEN s
      ELSE LET s1 == IF ~d.hasMoved /\ ~d.wasFocused THEN focusNote(s, id) ELSE s
           IN  [s1 EXCEPT !.noteTouchData[id] = Null]

\* noteElement 'input' (lines 871-874)
noteInput(s, id, text) ==
  saveState(SetNote(s, id, LAMBDA n : [n EXCEPT !.content = text]))

\* function deleteNote(note); confirmed is the answer of confirm()
deleteNote_Recount(s, id, confirmed) ==
  IF ~HasNote(s, id) \/ NoteOf(s, id).content = "" \/ confirmed
  THEN LET rest == SelectSeq(s.state.notes, LAMBDA n : n.id # id)
       IN  saveState(
             [s EXCEPT !.state.notes = rest,
                       !.state.maxZIndex = 1 + Len(rest),
                       !.rendered = @ \ {id},
                       !.paletteShow = @ \ {id},
                       !.focused = IF @ = id THEN NoNote ELSE @])
  ELSE s

deleteNote_NoConfirm(s, id, confirmed) ==
  saveState(
    [s EXCEPT !.state.notes = SelectSeq(@, LAMBDA n : n.id # id),
              !.rendered = @ \ {id},
              !.paletteShow = @ \ {id},
              !.focused = IF @ = id THEN NoNote ELSE @])

deleteNote(s, id, confirmed) ==
  IF ~HasNote(s, id) \/ NoteOf(s, id).content = "" \/ confirmed
  THEN saveState(
         [s EXCEPT !.state.notes = SelectSeq(@, LAMBDA n : n.id # id),
                   !.rendered = @ \ {id},
                   !.paletteShow = @ \ {id},
                   !.focused = IF @ = id THEN NoNote ELSE @])
  ELSE s

(***************************************************************************)
(* Global (document) handlers of a note drag or resize                     *)
(***************************************************************************)
\* a property of an object: undefined when the object has no such property,
\* and arithmetic on undefined gives NaN
Prop(r, name) == IF name \in DOMAIN r THEN I(r[name]) ELSE NaN

\* Math.max(150, start + delta / state.zoom)
ResizedTo(s, start, delta) ==
  RMax(I(MIN_NOTE_SIZE), RAdd(start, RDiv(delta, s.state.zoom)))

\* the resize branch of handleGlobalMouseMove / handleGlobalTouchMove
ResizeMove(s, x, y, startXName, startYName) ==
  LET deltaX == RSub(I(x), Prop(s.noteResizeData, startXName))
      deltaY == RSub(I(y), Prop(s.noteResizeData, startYName))
      newWidth == ResizedTo(s, s.noteResizeData.startWidth, deltaX)
      newHeight == ResizedTo(s, s.noteResizeData.startHeight, deltaY)
  IN  SetNote(s, s.currentNote,
              LAMBDA n : [n EXCEPT !.width = newWidth, !.height = newHeight])

DragMove_NoOffset(s, x, y) ==
  LET worldX == ToWorld(I(x), s.state.panX, s.state.zoom)
      worldY == ToWorld(I(y), s.state.panY, s.state.zoom)
  IN  SetNote([s EXCEPT !.noteDragData.hasMoved = TRUE], s.currentNote,
              LAMBDA n : [n EXCEPT !.x = worldX, !.y = worldY])

\* the drag branch of handleGlobalMouseMove / handleGlobalTouchMove
DragMove(s, x, y) ==
  LET worldX == ToWorld(RSub(I(x), s.noteDragData.dragOffset.x),
                        s.state.panX, s.state.zoom)
      worldY == ToWorld(RSub(I(y), s.noteDragData.dragOffset.y),
                        s.state.panY, s.state.zoom)
  IN  SetNote([s EXCEPT !.noteDragData.hasMoved = TRUE], s.currentNote,
              LAMBDA n : [n EXCEPT !.x = worldX, !.y = worldY])

Resizing(s) ==
  s.isResizingNote /\ s.noteResizeData # Null /\ s.currentNote # NoNote
Dragging(s) ==
  s.isDraggingNote /\ s.noteDragData # Null /\ s.currentNote # NoNote

\* function handleGlobalMouseMove(e)
handleGlobalMouseMove(s, e) ==
  IF Resizing(s) THEN ResizeMove(s, e.x, e.y, "startMouseX", "startMouseY")
  ELSE IF Dragging(s) THEN DragMove(s, e.x, e.y)
  ELSE s

\* function handleGlobalTouchMove(e)
handleGlobalTouchMove(s, e) ==
  IF Resizing(s) /\ Len(e.touches) = 1
  THEN ResizeMove(s, e.touches[1].x, e.touches[1].y, "startTouchX", "startTouchY")
  ELSE IF Dragging(s) /\ Len(e.touches) = 1
  THEN DragMove(s, e.touches[1].x, e.touches[1].y)
  ELSE s

\* Math.round(v / gridSize) * gridSize
Snap(v) == RMul(MathRound(RDiv(v, I(GRID_SIZE))), I(GRID_SIZE))

\* Math.max(150, snapped)
SnapSize(v) == RMax(I(MIN_NOTE_SIZE), Snap(v))

\* function handleGlobalMouseUp() and function handleGlobalTouchEnd(e): the
\* two bodies are the same statement for statement
EndNoteGesture(s) ==
  LET s1 == IF Resizing(s)
            THEN saveState(
                   [SetNote(s, s.currentNote,
                            LAMBDA n : [n EXCEPT !.width = SnapSize(n.width),
                                                 !.height = SnapSize(n.height)])
                      EXCEPT !.isResizingNote = FALSE,
                             !.noteResizeData = Null,
                             !.currentNote = NoNote])
            ELSE s
  IN  IF Dragging(s1)
      THEN LET s2 == IF s1.noteDragData.hasMoved
                     THEN saveState(
                            SetNote(s1, s1.currentNote,
                                    LAMBDA n : [n EXCEPT !.x = Snap(n.x),
                                                         !.y = Snap(n.y)]))
                     ELSE s1
           IN  [s2 EXCEPT !.isDraggingNote = FALSE,
                          !.noteDragData = Null,
                          !.currentNote = NoNote]
      ELSE s1

handleGlobalMouseUp(s) == EndNoteGesture(s)
handleGlobalTouchEnd(s) == EndNoteGesture(s)


(***************************************************************************)
(* Clicks on the controls of a note, and the document click listeners      *)
(***************************************************************************)
\* colorBtn 'click' (lines 793-806)
colorBtnClick(s, id) ==
  IF id \in s.paletteShow
  THEN [s EXCEPT !.paletteShow = {}]
  ELSE [s EXCEPT !.paletteShow = {id},
                 !.originalColor[id] =
                   IF HasNote(s, id) THEN NoteOf(s, id).color ELSE @]

paletteColorClick_NoCommit(s, id) ==
  saveState([s EXCEPT !.paletteShow = @ \ {id}])

\* a palette colour 'click' (lines 780-786)
paletteColorClick(s, id) ==
  saveState([s EXCEPT !.paletteShow = @ \ {id},
                      !.originalColor[id] =
                        IF HasNote(s, id) THEN NoteOf(s, id).color ELSE @])

\* a palette colour 'mouseenter' (lines 768-778)
paletteColorEnter(s, id, color) ==
  SetNote(s, id, LAMBDA n : [n EXCEPT !.color = color])

\* colorPalette 'mouseleave' (lines 809-823)
paletteMouseLeave(s, id) ==
  IF id \in s.paletteShow
  THEN SetNote(s, id, LAMBDA n : [n EXCEPT !.color = s.originalColor[id]])
  ELSE s

\* the document 'click' listener of every note ever rendered (lines 827-835),
\* for a click outside the colour buttons and palettes
documentClick(s) ==
  LET ns == s.state.notes
  IN  [s EXCEPT !.paletteShow = {},
                !.state.notes =
                  [i \in 1..Len(ns) |->
                     [ns[i] EXCEPT !.color = s.originalColor[ns[i].id]]]]

\* the 'click' event that follows a release on the element that was pressed
dispatchClick(s, e, confirmed) ==
  CASE e.target.part = "colorBtn" -> colorBtnClick(s, e.target.id)
    [] e.target.part = "palette" -> paletteColorClick(s, e.target.id)
    [] e.target.part = "deleteBtn" -> deleteNote(s, e.target.id, confirmed)
    [] OTHER -> documentClick(s)

\* the callback of the focus timeout of createNoteAtPosition (lines 706-714)
focusTimerFired(s, id) == focusNote(s, id)

\* a file: whether JSON.parse accepts its text, and the version and state
\* of the object it holds (0, Null: none)
File(version, doc) == [parses |-> TRUE, version |-> version, state |-> doc]
Unparseable == [parses |-> FALSE, version |-> 0, state |-> Null]

\* function exportData(): the downloaded file holds JSON.stringify of
\* { version: 1, exported, state }
exportData(s) == [s EXCEPT !.backup = File(1, Stringify(s.state))]

\* importData rejects: JSON.parse throws, or version or state is missing
ImportRejects(file) == ~file.parses \/ file.version = 0 \/ file.state = Null

\* { ...a, ...b }
Spread(a, b) ==
  [k \in DOMAIN a \cup DOMAIN b |-> IF k \in DOMAIN b THEN b[k] ELSE a[k]]

importData_NoVersionCheck(s, file) ==
  IF ~file.parses \/ file.state = Null THEN s
  ELSE
  LET doc == Spread(s.state, file.state)
      ids == {doc.notes[i].id : i \in 1..Len(doc.notes)}
      s1 == [s EXCEPT !.state = doc,
                      !.rendered = ids,
                      !.paletteShow = {},
                      !.focused = NoNote]
      color(id) == doc.notes[CHOOSE i \in 1..Len(doc.notes) : doc.notes[i].id = id].color
  IN  saveState(
        [s1 EXCEPT !.noteMouseData = [id \in ids |-> Null] @@ @,
                   !.noteTouchData = [id \in ids |-> Null] @@ @,
                   !.originalColor = [id \in ids |-> color(id)] @@ @])

\* function importData(file)
importData(s, file) ==
  IF ImportRejects(file) THEN s
  ELSE
  LET doc == Spread(s.state, file.state)
      ids == {doc.notes[i].id : i \in 1..Len(doc.notes)}
      s1 == [s EXCEPT !.state = doc,
                      !.rendered = ids,
                      !.paletteShow = {},
                      !.focused = NoNote]
      color(id) == doc.notes[CHOOSE i \in 1..Len(doc.notes) : doc.notes[i].id = id].color
  IN  saveState(
        [s1 EXCEPT !.noteMouseData = [id \in ids |-> Null] @@ @,
                   !.noteTouchData = [id \in ids |-> Null] @@ @,
                   !.originalColor = [id \in ids |-> color(id)] @@ @])

(***************************************************************************)
(* Events.  The target of a pointer event is the element under the point;  *)
(* part names which element of a note container it is.                     *)
(***************************************************************************)
NoteParts == {"textarea", "colorBtn", "deleteBtn", "palette"}

IsTarget(s, x, y, part) ==
  LET hit == ElementFromPoint(s, x, y)
  IN  IF hit = NoNote THEN part = "canvas"
      ELSE part \in NoteParts /\ (part = "palette" => hit \in s.paletteShow)

TargetAt(s, x, y, part) ==
  [id |-> ElementFromPoint(s, x, y), part |-> part]

Ev(x, y, target, arg) == [x |-> x, y |-> y, target |-> target, arg |-> arg]

NoEv == Ev(0, 0, Canvas, 0)

\* the events dispatched so far, by kind, and in all
Spend(what) == budget' = [budget EXCEPT ![what] = @ + 1]
Events ==
  budget.wheel + budget.zoom + budget.move + budget.touch + budget.press + budget.other

\* mousedown at (x, y): noteElement, container, viewport, then the default
\* action (focus moves to a pressed textarea, away from a pressed control)
\* unless a listener called preventDefault
MouseDown(x, y, part) ==
  /\ ~mouse.down
  /\ IsTarget(Cur, x, y, part)
  /\ LET s == Cur
         t == TargetAt(s, x, y, part)
         e == [x |-> x, y |-> y, target |-> t]
         prevented ==
           \/ ~(s.isResizingNote \/ s.focused = t.id)
           \/ InResizeHandle(s, NoteOf(s, t.id), x, y)
         s1 == CASE part = "canvas" -> handleMouseDown(s, e)
                 [] part = "textarea" ->
                      LET a == containerMouseDown(noteMouseDown(s, t.id, e), t.id, e)
                      IN  IF prevented THEN a ELSE focusNote(a, t.id)
                 [] OTHER ->
                      [handleMouseDown(containerMouseDown(s, t.id, e), e)
                         EXCEPT !.focused = NoNote]
     IN  /\ Commit(s1)
         /\ mouse' = [mouse EXCEPT !.down = TRUE, !.x = x, !.y = y, !.target = t,
                                   !.left = FALSE, !.focus = s.focused]
         /\ ev' = Ev(x, y, t, 0)
  /\ lastOp' = "mousedown"
  /\ Spend("press")
  /\ UNCHANGED <<fingers, tap>>

\* mousemove at (x, y): noteElement, viewport, document
MouseMove(x, y, part) ==
  /\ IsTarget(Cur, x, y, part)
  /\ LET s == Cur
         t == TargetAt(s, x, y, part)
         e == [x |-> x, y |-> y, target |-> t]
         s1 == IF part = "textarea" THEN noteMouseMove(s, t.id, e) ELSE s
     IN  /\ Commit(handleGlobalMouseMove(handleMouseMove(s1, e), e))
         /\ ev' = Ev(x, y, t, 0)
  /\ lastOp' = "mousemove"
  /\ Spend("move")
  /\ UNCHANGED <<tap, fingers, mouse>>

\* the pointer moves onto the swatch of colour color in the open palette at
\* (x, y): mouseenter of the swatch, then the mousemove
PaletteHover(x, y, color) ==
  /\ IsTarget(Cur, x, y, "palette")
  /\ LET s == Cur
         t == TargetAt(s, x, y, "palette")
         e == [x |-> x, y |-> y, target |-> t]
         s1 == paletteColorEnter(s, t.id, color)
     IN  /\ Commit(handleGlobalMouseMove(handleMouseMove(s1, e), e))
         /\ mouse' = [mouse EXCEPT !.hover = t.id, !.swatch = color]
         /\ ev' = Ev(x, y, t, color)
  /\ lastOp' = "mouseenter"
  /\ Spend("move")
  /\ UNCHANGED <<tap, fingers>>

\* the pointer moves out of the palette it was in, to (x, y): mouseleave of
\* the palette, then the mousemove
PaletteLeave(x, y, part) ==
  /\ mouse.hover # NoNote
  /\ part # "palette"
  /\ IsTarget(Cur, x, y, part)
  /\ LET s == paletteMouseLeave(Cur, mouse.hover)
         t == TargetAt(s, x, y, part)
         e == [x |-> x, y |-> y, target |-> t]
         s1 == IF part = "textarea" THEN noteMouseMove(s, t.id, e) ELSE s
     IN  /\ Commit(handleGlobalMouseMove(handleMouseMove(s1, e), e))
         /\ mouse' = [mouse EXCEPT !.hover = NoNote]
         /\ ev' = Ev(x, y, t, 0)
  /\ lastOp' = "paletteleave"
  /\ Spend("move")
  /\ UNCHANGED <<tap, fingers>>

\* mouseup at (x, y): noteElement, viewport, document; then 'click' when the
\* release is on the pressed element; then 'dblclick' when the browser takes
\* that click for the second of a double click
MouseUp(x, y, part, confirmed, dbl) ==
  /\ mouse.down
  /\ IsTarget(Cur, x, y, part)
  /\ LET s == Cur
         t == TargetAt(s, x, y, part)
         e == [x |-> x, y |-> y, target |-> t]
         clicked == t = mouse.target
         s1 == IF part = "textarea" THEN noteMouseUp(s, t.id, e) ELSE s
         s2 == handleGlobalMouseUp(handleMouseUp(s1, e))
         s3 == IF clicked THEN dispatchClick(s2, e, confirmed) ELSE s2
     IN  /\ confirmed => clicked /\ part = "deleteBtn"
         /\ dbl => clicked /\ mouse.clicked = t
         /\ Commit(IF dbl THEN handleDoubleClick(s3, e) ELSE s3)
         /\ mouse' = [mouse EXCEPT !.down = FALSE,
                                   !.clicked = IF clicked /\ ~dbl THEN t ELSE Null,
                                   !.confirmed = confirmed]
         /\ ev' = Ev(x, y, t, IF dbl THEN 2 ELSE IF clicked THEN 1 ELSE 0)
  /\ lastOp' = "mouseup"
  /\ UNCHANGED <<tap, fingers, budget>>

\* the delete button of note id, holding the keyboard focus, is activated
\* from the keyboard: its 'click' listener (lines 846-849), with no mouse
\* event before it
DeleteKey(id, confirmed) ==
  /\ id \in rendered
  /\ Commit(deleteNote([Cur EXCEPT !.focused = NoNote], id, confirmed))
  /\ mouse' = [mouse EXCEPT !.confirmed = confirmed]
  /\ ev' = Ev(0, 0, [id |-> id, part |-> "deleteBtn"], 1)
  /\ lastOp' = "deletekey"
  /\ Spend("other")
  /\ UNCHANGED <<tap, fingers>>

\* mouseleave of the viewport at (x, y): handleMouseUp
MouseLeave(x, y) ==
  /\ LET e == [x |-> x, y |-> y, target |-> Canvas]
     IN  /\ Commit(handleMouseUp(Cur, e))
         /\ ev' = Ev(x, y, Canvas, 0)
  /\ mouse' = [mouse EXCEPT !.clicked = Null, !.left = TRUE]
  /\ lastOp' = "mouseleave"
  /\ Spend("other")
  /\ UNCHANGED <<fingers, tap>>

\* wheel at (x, y)
Wheel(x, y, part, deltaY) ==
  /\ IsTarget(Cur, x, y, part)
  /\ LET t == TargetAt(Cur, x, y, part)
     IN  /\ Commit(handleWheel(Cur, [x |-> x, y |-> y, target |-> t, deltaY |-> deltaY]))
         /\ ev' = Ev(x, y, t, deltaY)
  /\ lastOp' = "wheel"
  /\ Spend("wheel")
  /\ UNCHANGED <<tap, fingers, mouse>>

\* window.resetView()
ResetView ==
  /\ Commit(resetView(Cur))
  /\ lastOp' = "resetView"
  /\ ev' = NoEv
  /\ Spend("other")
  /\ UNCHANGED <<tap, fingers, mouse>>


\* the fingers without the i-th
Without(seq, i) == [j \in 1..(Len(seq) - 1) |-> IF j < i THEN seq[j] ELSE seq[j + 1]]

Attached(s, t) == t.id = NoNote \/ t.id \in s.rendered

\* the pinch distances the model computes are whole numbers
WholeDistance(touches) ==
  Len(touches) = 2 =>
    LET dx == touches[1].x - touches[2].x
        dy == touches[1].y - touches[2].y
    IN  IsSquare(dx * dx + dy * dy, Abs(dx) + Abs(dy))

\* touchstart of a new finger at (x, y): noteElement, container (which stops
\* the propagation when it starts a resize), viewport
TouchStart(x, y, part) ==
  /\ IsTarget(Cur, x, y, part)
  /\ LET s == Cur
         t == TargetAt(s, x, y, part)
         touches == Append(fingers, [x |-> x, y |-> y, target |-> t])
         e == [touches |-> touches, changed |-> <<touches[Len(touches)]>>, target |-> t]
         s1 == IF part = "textarea" THEN noteTouchStart(s, t.id, e) ELSE s
         s2 == IF part = "canvas" THEN s1 ELSE containerTouchStart(s1, t.id, e)
         stopped == /\ part # "canvas"
                    /\ Len(touches) = 1
                    /\ InResizeHandle(s, NoteOf(s, t.id), x, y)
     IN  /\ WholeDistance(touches)
         /\ Commit(IF stopped THEN s2
                   ELSE handleViewportTouchStart(handleTouchStart(s2, e), e))
         /\ fingers' = touches
         /\ ev' = Ev(x, y, t, Len(touches))
  /\ lastOp' = "touchstart"
  /\ Spend("touch")
  /\ UNCHANGED <<mouse, tap>>

\* touchmove of finger i to (x, y): noteElement, viewport, document
TouchMove(i, x, y) ==
  /\ i \in 1..Len(fingers)
  /\ <<x, y>> # <<fingers[i].x, fingers[i].y>>
  /\ LET s == Cur
         t == fingers[i].target
         touches == [fingers EXCEPT ![i].x = x, ![i].y = y]
         e == [touches |-> touches, changed |-> <<touches[i]>>, target |-> t]
         s1 == IF t.part = "textarea" THEN noteTouchMove(s, t.id, e) ELSE s
     IN  /\ WholeDistance(touches)
         /\ Commit(IF Attached(s, t)
                   THEN handleGlobalTouchMove(
                          handleViewportTouchMove(handleTouchMove(s1, e), e), e)
                   ELSE s1)
         /\ fingers' = touches
         /\ ev' = Ev(x, y, t, Len(touches))
         /\ Spend(IF Len(touches) = 2 THEN "zoom" ELSE "move")
  /\ lastOp' = "touchmove"
  /\ UNCHANGED <<mouse, tap>>

\* touchend of finger i: noteElement, viewport (handleTouchEnd, handleTouchTap,
\* handleViewportTouchEnd, in the order they were added), document.  The
\* timeouts pending after a detected double tap are marked dbl.
TouchEnd(i) ==
  /\ i \in 1..Len(fingers)
  /\ LET s == Cur
         t == fingers[i].target
         touches == Without(fingers, i)
         e == [touches |-> touches, changed |-> <<fingers[i]>>, target |-> t]
         s1 == IF t.part = "textarea" THEN noteTouchEnd(s, t.id, e) ELSE s
         s2 == handleTouchEnd(s1, e)
         double == Len(touches) = 0 /\ IsDoubleTap(s2, e)
         s3 == handleGlobalTouchEnd(
                 handleViewportTouchEnd(handleTouchTap(s2, e), e))
         s4 == IF Attached(s, t) THEN s3 ELSE s1
     IN  /\ Commit([s4 EXCEPT !.timers =
                      {IF tm.kind = "tap" /\ double /\ Attached(s, t)
                       THEN [tm EXCEPT !.dbl = TRUE] ELSE tm : tm \in @}])
         /\ fingers' = touches
         /\ ev' = Ev(fingers[i].x, fingers[i].y, t,
                     IF double /\ Attached(s, t) THEN 2 ELSE 1)
         /\ tap' = IF Len(touches) = 0
                   THEN [time |-> now, x |-> fingers[i].x, y |-> fingers[i].y,
                         target |-> t, double |-> double /\ Attached(s, t)]
                   ELSE tap
  /\ lastOp' = "touchend"
  /\ UNCHANGED <<mouse, budget>>

\* a pending timeout whose deadline has come runs its callback
Timeout(t) ==
  /\ t \in timers
  /\ t.at <= now
  /\ LET s == [Cur EXCEPT !.timers = @ \ {t}]
     IN  Commit(CASE t.kind = "click" -> clickTimerFired(s)
                  [] t.kind = "tap" -> tapTimerFired(s)
                  [] OTHER -> focusTimerFired(s, t.id))
  /\ lastOp' = "timeout"
  /\ ev' = Ev(0, 0, Canvas, t)
  /\ UNCHANGED <<tap, mouse, fingers, budget>>

\* time passes, up to the earliest pending deadline
Tick(d) ==
  /\ \A t \in timers : now + d <= t.at
  /\ Commit([Cur EXCEPT !.now = @ + d])
  /\ lastOp' = "tick"
  /\ ev' = NoEv
  /\ UNCHANGED <<tap, mouse, fingers, budget>>

\* typing into the focused note
NoteInput(text) ==
  /\ focused # NoNote
  /\ Commit(noteInput(Cur, focused, text))
  /\ lastOp' = "input"
  /\ ev' = NoEv
  /\ Spend("other")
  /\ UNCHANGED <<tap, mouse, fingers>>

ExportData ==
  /\ Commit(exportData(Cur))
  /\ lastOp' = "export"
  /\ ev' = NoEv
  /\ Spend("other")
  /\ UNCHANGED <<tap, mouse, fingers>>

\* a backup file dropped on the viewport: the one this session exported, or
\* one of the given files
ImportData(files) ==
  \E file \in files \cup ({backup} \ {Null}) :
  /\ Commit(importData(Cur, file))
  /\ lastOp' = "import"
  /\ ev' = Ev(0, 0, Canvas, [file |-> file, rejected |-> ImportRejects(file)])
  /\ Spend("other")
  /\ UNCHANGED <<tap, mouse, fingers>>

\* requests to a store begin to fail, or to succeed again (quota, private
\* browsing, a closed database)
StoreHealth(db, l) ==
  /\ <<db, l>> # <<dbUp, lsUp>>
  /\ Commit([Cur EXCEPT !.dbUp = db, !.lsUp = l])
  /\ lastOp' = "stores"
  /\ ev' = NoEv
  /\ Spend("other")
  /\ UNCHANGED <<tap, mouse, fingers>>

(***************************************************************************)
(* The state after init(): the stored document doc (none: Null) loaded by  *)
(* loadState into the default state, its notes rendered.                   *)
(***************************************************************************)
StartTime == 1000

\* state = { ...state, ...doc } and the rendering of its notes
Adopt(s, stored) ==
  LET doc == Spread(s.state, stored)
      ids == {doc.notes[i].id : i \in 1..Len(doc.notes)}
      color(id) ==
        doc.notes[CHOOSE i \in 1..Len(doc.notes) : doc.notes[i].id = id].color
  IN  [s EXCEPT !.state = doc,
                !.rendered = ids,
                !.noteMouseData = [id \in ids |-> Null],
                !.noteTouchData = [id \in ids |-> Null],
                !.originalColor = [id \in ids |-> color(id)],
                !.nextId = 1 + Len(doc.notes)]

\* function loadFromIndexedDB(), when the request succeeds: the record's
\* data, or null
loadFromIndexedDB(s) == s.idb

\* function loadState(): the fallback store is read when the primary read
\* fails
loadState(s) ==
  IF s.dbUp
  THEN IF loadFromIndexedDB(s) # Null THEN Adopt(s, loadFromIndexedDB(s)) ELSE s
  ELSE IF s.lsUp /\ s.ls # Null THEN Adopt(s, s.ls)
  ELSE s

Fresh(rect) ==
  [state |-> DefaultState, currentNote |-> NoNote, isResizingNote |-> FALSE,
   isDraggingNote |-> FALSE, noteDragData |-> Null, noteResizeData |-> Null,
   clickTimer |-> NoTimer, clickPosition |-> XY(0, 0), lastPinchDistance |-> 0,
   isPinching |-> FALSE, isTouchPanning |-> FALSE, touchPanStart |-> XY(0, 0),
   touchLastPan |-> XY(I(0), I(0)), lastPinchCenter |-> XY(I(0), I(0)),
   lastTapTime |-> 0, lastTapX |-> 0, lastTapY |-> 0, tapStartTime |-> 0,
   tapStartX |-> 0, tapStartY |-> 0, tapMoved |-> FALSE,
   tapCreateNoteTimer |-> NoTimer, tapCreateNotePosition |-> XY(0, 0),
   doubleTapDetected |-> FALSE, noteMouseData |-> <<>>, noteTouchData |-> <<>>,
   originalColor |-> <<>>, paletteShow |-> {}, focused |-> NoNote,
   rendered |-> {}, idb |-> Null, ls |-> Null, dbUp |-> TRUE, lsUp |-> TRUE,
   backup |-> Null, now |-> StartTime,
   timers |-> {}, viewportRect |-> rect, nextId |-> 1]

\* init() over the stores as the earlier sessions left them
InitFrom(primary, fallback, up, rect) ==
  LET s == loadState([Fresh(rect) EXCEPT !.idb = primary, !.ls = fallback,
                                         !.dbUp = up])
  IN  /\ state = s.state
      /\ currentNote = s.currentNote
      /\ isResizingNote = s.isResizingNote
      /\ isDraggingNote = s.isDraggingNote
      /\ noteDragData = s.noteDragData
      /\ noteResizeData = s.noteResizeData
      /\ clickTimer = s.clickTimer
      /\ clickPosition = s.clickPosition
      /\ lastPinchDistance = s.lastPinchDistance
      /\ isPinching = s.isPinching
      /\ isTouchPanning = s.isTouchPanning
      /\ touchPanStart = s.touchPanStart
      /\ touchLastPan = s.touchLastPan
      /\ lastPinchCenter = s.lastPinchCenter
      /\ lastTapTime = s.lastTapTime
      /\ lastTapX = s.lastTapX
      /\ lastTapY = s.lastTapY
      /\ tapStartTime = s.tapStartTime
      /\ tapStartX = s.tapStartX
      /\ tapStartY = s.tapStartY
      /\ tapMoved = s.tapMoved
      /\ tapCreateNoteTimer = s.tapCreateNoteTimer
      /\ tapCreateNotePosition = s.tapCreateNotePosition
      /\ doubleTapDetected = s.doubleTapDetected
      /\ noteMouseData = s.noteMouseData
      /\ noteTouchData = s.noteTouchData
      /\ originalColor = s.originalColor
      /\ paletteShow = s.paletteShow
      /\ focused = s.focused
      /\ rendered = s.rendered
      /\ idb = s.idb
      /\ ls = s.ls
      /\ dbUp = s.dbUp
      /\ lsUp = s.lsUp
      /\ backup = s.backup
      /\ now = s.now
      /\ timers = s.timers
      /\ viewportRect = s.viewportRect
      /\ nextId = s.nextId
      /\ mouse = [down |-> FALSE, x |-> 0, y |-> 0, target |-> Canvas, clicked |-> Null,
                 left |-> FALSE, confirmed |-> FALSE, hover |-> NoNote,
                 focus |-> NoNote, swatch |-> DEFAULT_COLOR]
      /\ fingers = <<>>
      /\ tap = Null
      /\ lastOp = "init"
      /\ ev = NoEv
      /\ budget = [wheel |-> 0, zoom |-> 0, move |-> 0, touch |-> 0, press |-> 0, other |-> 0]

\* the page is loaded again: init() in a fresh page over the stores as this
\* session left them; no button and no finger is down
Reload ==
  /\ Commit(loadState([Fresh(viewportRect) EXCEPT
              !.idb = idb, !.ls = ls, !.dbUp = dbUp, !.lsUp = lsUp,
              !.backup = backup, !.now = now]))
  /\ mouse' = [down |-> FALSE, x |-> 0, y |-> 0, target |-> Canvas,
               clicked |-> Null, left |-> FALSE, confirmed |-> FALSE,
               hover |-> NoNote, focus |-> NoNote, swatch |-> DEFAULT_COLOR]
  /\ fingers' = <<>>
  /\ tap' = Null
  /\ lastOp' = "reload"
  /\ ev' = NoEv
  /\ Spend("other")

\* init() over a primary store holding doc (Null: no record)
InitWith(doc, rect) == InitFrom(doc, Null, TRUE, rect)

\* a stored note, as createNoteAtPosition and a drag/resize leave it
StoredNote(id, x, y, w, h, z) ==
  [id |-> id, x |-> I(x), y |-> I(y), width |-> I(w), height |-> I(h),
   content |-> "", color |-> DEFAULT_COLOR, zIndex |-> z]

Doc(notes) ==
  [DefaultState EXCEPT !.notes = notes, !.maxZIndex = 1 + Len(notes)]


(***************************************************************************)
(* SpecZoom: the viewport under wheel zooms, one- and two-finger touch     *)
(* gestures and resetView, from every stored document of ZoomDocs.         *)
(***************************************************************************)
MaxZoomEvents == 4
MaxWheels == 2

\* the fingers of a gesture
FingerSlots == 1..2

SmallViewport == [width |-> 400, height |-> 300]
LargeViewport == [width |-> 1600, height |-> 1200]

\* stored documents and the viewport they are opened in: no document; one
\* note and the view zoomed in, which resetView fits at more than MAX_ZOOM;
\* two notes too far apart to fit at MIN_ZOOM, the view panned and zoomed out
ZoomInits ==
  {<<Null, SmallViewport>>,
   <<[Doc(<<StoredNote(1, 0, 0, 150, 150, 2)>>) EXCEPT !.zoom = I(4)], LargeViewport>>,
   <<[Doc(<<StoredNote(1, 0, 0, 150, 150, 2), StoredNote(2, 4000, 200, 300, 150, 3)>>)
        EXCEPT !.zoom = <<1, 5>>, !.panX = I(-30), !.panY = I(45)],
     SmallViewport>>}

WheelPoints == {<<100, 100>>}
WheelDeltas == {-100, 100}
TouchPoints == {<<100, 300>>, <<200, 300>>, <<400, 300>>}

InitZoom == \E i \in ZoomInits : InitWith(i[1], i[2])

NextZoom ==
  \/ \E p \in WheelPoints, d \in WheelDeltas, part \in {"canvas", "textarea"} :
       /\ Events < MaxZoomEvents
       /\ budget.wheel < MaxWheels
       /\ Wheel(p[1], p[2], part, d)
  \/ \E p \in TouchPoints, part \in {"canvas", "textarea"} :
       /\ Len(fingers) + 1 \in FingerSlots
       /\ Events < MaxZoomEvents
       /\ TouchStart(p[1], p[2], part)
  \/ \E i \in FingerSlots, p \in TouchPoints :
       Events < MaxZoomEvents /\ TouchMove(i, p[1], p[2])
  \/ \E i \in FingerSlots : TouchEnd(i)
  \/ Events < MaxZoomEvents /\ ResetView

SpecZoom == InitZoom /\ [][NextZoom]_vars

\* C1: in every state reached from a loaded document (the default state
\* included) by wheel zooms, pinch moves and resetView calls,
\* MIN_ZOOM <= state.zoom <= MAX_ZOOM.
C1_ZoomClamped == RLe(MIN_ZOOM, state.zoom) /\ RLe(state.zoom, MAX_ZOOM)

\* a pinch that spread the fingers has driven the zoom to the upper limit
C1_PinchAtMax ==
  /\ lastOp = "touchmove"
  /\ isPinching
  /\ Len(fingers) = 2
  /\ state.zoom = MAX_ZOOM
  /\ budget.other = 0

\* C2: a wheel step keeps the world point under the cursor, and a pinch-move
\* step keeps the world point under the current pinch midpoint: the point
\* computed with the pan and zoom before the step equals the point computed
\* with the pan and zoom after it.
C2_AnchorKept ==
  [][/\ lastOp' = "wheel" =>
          /\ ToWorld(I(ev'.x), state.panX, state.zoom)
               = ToWorld(I(ev'.x), state'.panX, state'.zoom)
          /\ ToWorld(I(ev'.y), state.panY, state.zoom)
               = ToWorld(I(ev'.y), state'.panY, state'.zoom)
     /\ lastOp' = "touchmove" /\ isPinching /\ Len(fingers') = 2 =>
          LET center == PinchCenter(fingers'[1], fingers'[2])
          IN  /\ ToWorld(center.x, state.panX, state.zoom)
                   = ToWorld(center.x, state'.panX, state'.zoom)
              /\ ToWorld(center.y, state.panY, state.zoom)
                   = ToWorld(center.y, state'.panY, state'.zoom)]_vars


(***************************************************************************)
(* SpecClick: mouse presses, moves and releases on the canvas and on a     *)
(* note, clicks and double clicks, the pointer leaving the viewport, and   *)
(* the passing of time with the timeouts it fires.                         *)
(***************************************************************************)
MaxClickEvents == 3
MaxClickTime == 300

\* a document with one note, the view panned and zoomed in
ClickDoc ==
  [Doc(<<StoredNote(1, 0, 0, 150, 150, 2)>>)
     EXCEPT !.zoom = I(2), !.panX = I(20), !.panY = I(-10)]

\* where the button is pressed: a canvas point near the right edge of the
\* viewport, and a point of the note of ClickDoc
PressPoints == {<<398, 200>>, <<50, 50>>}
\* where it is released: less than 5 from the canvas press point on both
\* axes, 8 from it on x, and on the note
ReleasePoints == {<<396, 203>>, <<390, 200>>, <<50, 50>>}
\* where a held pointer is moved to
MovePoints == {<<390, 200>>}
\* where the pointer crosses the right edge
LeavePoints == {<<400, 200>>}
ClickParts == {"canvas", "textarea", "colorBtn"}
TickSteps == {100, 300}

InitClick == \E doc \in {Null, ClickDoc} : InitWith(doc, SmallViewport)

NextClick ==
  \/ \E p \in PressPoints, part \in ClickParts :
       Events < MaxClickEvents /\ MouseDown(p[1], p[2], part)
  \/ \E p \in MovePoints, part \in ClickParts :
       Events < MaxClickEvents /\ MouseMove(p[1], p[2], part)
  \/ \E p \in ReleasePoints, part \in ClickParts, dbl \in BOOLEAN :
       MouseUp(p[1], p[2], part, FALSE, dbl)
  \/ \E p \in LeavePoints : Events < MaxClickEvents /\ MouseLeave(p[1], p[2])
  \/ \E t \in timers : Timeout(t)
  \/ \E d \in TickSteps : now + d <= StartTime + MaxClickTime /\ Tick(d)

SpecClick == InitClick /\ [][NextClick]_vars

ClickTimers(ts) == {t \in ts : t.kind = "click"}

\* the release of a press on the canvas, the pointer still inside
CanvasRelease ==
  /\ lastOp' = "mouseup"
  /\ mouse.down /\ ~mouse.left
  /\ mouse.target = Canvas /\ ev'.target = Canvas

\* C3: (a) the release of a canvas press less than 5 from the press point on
\* both axes, with no palette open and no textarea focused, and not the second
\* click of a double click, creates no note and arms the creation timer for
\* CLICK_DELAY later at the release point; (b) an armed timer only goes away
\* by firing, by a later click re-arming it or by a double click; (c) the
\* number of notes only changes when the timer fires; (d) when it fires,
\* exactly one note is appended, at (clickPosition - pan) / zoom, 150 x 150,
\* empty, of palette colour 3, with zIndex = maxZIndex = the old maxZIndex + 1.
C3_ClickCreatesNote ==
  [][/\ ( /\ CanvasRelease
          /\ Abs(ev'.x - mouse.x) < 5 /\ Abs(ev'.y - mouse.y) < 5
          /\ paletteShow = {} /\ focused = NoNote
          /\ ev'.arg # 2 )
        => /\ state'.notes = state.notes
           /\ clickTimer' = now + 300
           /\ clickPosition' = XY(ev'.x, ev'.y)
           /\ ClickTimers(timers') =
                {[kind |-> "click", at |-> now + 300, id |-> NoNote, dbl |-> FALSE]}
     /\ \A t \in ClickTimers(timers) :
          t \notin timers' =>
            \/ lastOp' = "timeout" /\ ev'.arg = t
            \/ lastOp' \in {"mouseup", "mouseleave"} /\ ev'.target = Canvas
     /\ Len(state'.notes) # Len(state.notes) =>
          lastOp' = "timeout" /\ ev'.arg.kind = "click"
     /\ (lastOp' = "timeout" /\ ev'.arg.kind = "click")
        => /\ Len(state'.notes) = Len(state.notes) + 1
           /\ SubSeq(state'.notes, 1, Len(state.notes)) = state.notes
           /\ LET n == state'.notes[Len(state'.notes)]
              IN  /\ n.x = RDiv(RSub(I(clickPosition.x), state.panX), state.zoom)
                  /\ n.y = RDiv(RSub(I(clickPosition.y), state.panY), state.zoom)
                  /\ n.width = I(150) /\ n.height = I(150)
                  /\ n.content = "" /\ n.color = 3
                  /\ n.zIndex = state.maxZIndex + 1
           /\ state'.maxZIndex = state.maxZIndex + 1
           /\ clickTimer' = NoTimer]_vars

\* the timer of a click on ClickDoc (zoom 2, pan (20, -10)) at (396, 203) has
\* fired: the second note is at ((396 - 20) / 2, (203 + 10) / 2)
C3_NoteFromClick ==
  /\ lastOp = "timeout" /\ ev.arg.kind = "click"
  /\ Len(state.notes) = 2
  /\ state.notes[2].x = I(188) /\ state.notes[2].y = <<213, 2>>
  /\ state.notes[2].zIndex = 3 /\ state.maxZIndex = 3
  /\ clickTimer = NoTimer

\* C4: a double click on the canvas while the creation timer is armed leaves
\* clickTimer null and no creation timeout pending, creates no note and sets
\* the view that resetView computes.
C4_DoubleClickCancels ==
  [][( /\ lastOp' = "mouseup" /\ ev'.arg = 2 /\ ev'.target = Canvas
       /\ clickTimer # NoTimer )
     => /\ clickTimer' = NoTimer
        /\ ClickTimers(timers') = {}
        /\ state'.notes = state.notes
        /\ state'.zoom = resetView(Cur).state.zoom
        /\ state'.panX = resetView(Cur).state.panX
        /\ state'.panY = resetView(Cur).state.panY]_vars

\* a double click on the canvas of ClickDoc before any timer has fired: no
\* note was created and the view is the one fitting the note of ClickDoc
C4_AfterDoubleClick ==
  /\ lastOp = "mouseup" /\ ev.arg = 2 /\ ev.target = Canvas
  /\ clickPosition = XY(396, 203)
  /\ clickTimer = NoTimer /\ ClickTimers(timers) = {}
  /\ Len(state.notes) = 1 /\ nextId = 2
  /\ state.zoom = <<8, 5>>

\* C6: an event handled by handleMouseUp (mouseup, or the pointer leaving the
\* viewport) at 5 or more from the press point of a canvas press on either
\* axis arms no creation timer and creates no note.
C6_PanNeverArms ==
  [][( /\ lastOp' \in {"mouseup", "mouseleave"}
       /\ mouse.down /\ mouse.target = Canvas
       /\ \/ Abs(ev'.x - mouse.x) >= 5
          \/ Abs(ev'.y - mouse.y) >= 5 )
     => /\ clickTimer' \in {clickTimer, NoTimer}
        /\ ClickTimers(timers') \subseteq ClickTimers(timers)
        /\ Len(state'.notes) = Len(state.notes)]_vars

\* a canvas press at (398, 200) dragged to and released at (390, 200): the
\* view has panned by -8 and no timer is armed
C6_AfterPan ==
  /\ lastOp = "mouseup" /\ ev.target = Canvas /\ ev.x = 390
  /\ mouse.x = 398 /\ mouse.target = Canvas /\ ~mouse.left
  /\ budget.move = 1 /\ budget.press = 1
  /\ state.panX = I(-8)
  /\ clickTimer = NoTimer /\ state.notes = <<>>


(***************************************************************************)
(* SpecTap: one or two fingers put down, moved and lifted, and the passing *)
(* of time with the timeouts it fires.                                     *)
(***************************************************************************)
MaxTapEvents == 3
MaxTapTime == 400

\* a document with one note away from the tap points; resetView zooms in on it
TapDoc == Doc(<<StoredNote(1, 400, 400, 150, 150, 2)>>)

\* two canvas points less than 40 apart on both axes, and a third far away
TapPoints == {<<50, 50>>, <<60, 55>>, <<200, 50>>}

InitTap == \E doc \in {Null, TapDoc} : InitWith(doc, SmallViewport)

NextTap ==
  \/ \E p \in TapPoints, part \in {"canvas", "textarea"} :
       /\ Len(fingers) + 1 \in FingerSlots
       /\ Events < MaxTapEvents
       /\ TouchStart(p[1], p[2], part)
  \/ \E i \in FingerSlots, p \in TapPoints :
       Events < MaxTapEvents /\ TouchMove(i, p[1], p[2])
  \/ \E i \in FingerSlots : TouchEnd(i)
  \/ \E t \in timers : Timeout(t)
  \/ \E d \in TickSteps : now + d <= StartTime + MaxTapTime /\ Tick(d)

SpecTap == InitTap /\ [][NextTap]_vars

TapTimers(ts) == {t \in ts : t.kind = "tap"}

\* C5: when a single finger put down on the canvas is lifted over empty
\* canvas less than 300 ms after, and less than 40 px on both axes from, the
\* lift that ended the previous canvas tap (itself not the second tap of a
\* double tap), the view becomes the one resetView computes, no note is
\* created, no creation timeout of the first tap is left pending, and the
\* timeout of the second tap creates no note when it fires.
C5_DoubleTapResets ==
  [][/\ ( /\ lastOp' = "touchend"
          /\ Len(fingers) = 1 /\ fingers[1].target = Canvas
          /\ ElementFromPoint(Cur, fingers[1].x, fingers[1].y) = NoNote
          /\ tap # Null /\ tap.target = Canvas /\ ~tap.double
          /\ now - tap.time < 300
          /\ Abs(fingers[1].x - tap.x) < 40
          /\ Abs(fingers[1].y - tap.y) < 40 )
        => /\ state'.zoom = resetView(Cur).state.zoom
           /\ state'.panX = resetView(Cur).state.panX
           /\ state'.panY = resetView(Cur).state.panY
           /\ state'.notes = state.notes
           /\ \A t \in TapTimers(timers') : t.at = now + 300 /\ t.dbl
     /\ (lastOp' = "timeout" /\ ev'.arg.kind = "tap" /\ ev'.arg.dbl)
        => Len(state'.notes) = Len(state.notes)]_vars

\* the timeout of the second tap of a double tap on TapDoc has fired: the
\* view is the one fitting the note, and no note was created
C5_AfterDoubleTap ==
  /\ lastOp = "timeout" /\ ev.arg.kind = "tap" /\ ev.arg.dbl
  /\ tap # Null /\ tap.double /\ tap.x = 60 /\ tap.y = 55
  /\ Len(state.notes) = 1 /\ nextId = 2
  /\ state.zoom = <<8, 5>>
  /\ TapTimers(timers) = {}


(***************************************************************************)
(* SpecNotes: the notes under mouse and touch presses, drags, resizes and  *)
(* deletions, note creation by click, typing, resetView, export and        *)
(* import, from the default state and from a stored document of two        *)
(* overlapping notes.                                                      *)
(***************************************************************************)
MaxNoteEvents == 2

\* two notes side by side, the view zoomed out: on screen note 1 covers
\* [0, 75) x [0, 75) and note 2 [100, 175) x [0, 75)
NotesDoc ==
  [Doc(<<StoredNote(1, 0, 0, 150, 150, 2), StoredNote(2, 200, 0, 150, 150, 3)>>)
     EXCEPT !.zoom = <<1, 2>>]

\* where a button or finger is pressed.  In NotesDoc: the body of note 1,
\* the resize handle of note 1, the canvas.  In the default document: the
\* body, the body and the resize handle of a note created by a click at the
\* first point.
NotePoints == {<<20, 20>>, <<60, 60>>, <<150, 150>>}
\* where a held pointer or finger is moved to and released
DragPoints == {<<150, 150>>, <<200, 200>>}
NoteTexts == {"a"}
\* the backup of an empty board, exported by an earlier session
ImportFiles == {File(1, DefaultState)}

InitNotes == \E doc \in {Null, NotesDoc} : InitWith(doc, SmallViewport)

NextNotes ==
  \/ \E p \in NotePoints, part \in {"canvas", "textarea", "deleteBtn"} :
       Events < MaxNoteEvents /\ MouseDown(p[1], p[2], part)
  \/ \E p \in DragPoints, part \in {"canvas", "textarea"} :
       Events < MaxNoteEvents /\ MouseMove(p[1], p[2], part)
  \/ \E p \in NotePoints \cup DragPoints,
        part \in {"canvas", "textarea", "deleteBtn"}, confirmed \in BOOLEAN :
       /\ <<p[1], p[2]>> = <<mouse.x, mouse.y>> \/ p \in DragPoints
       /\ MouseUp(p[1], p[2], part, confirmed, FALSE)
  \/ \E p \in NotePoints, part \in {"canvas", "textarea"} :
       /\ fingers = <<>>
       /\ Events < MaxNoteEvents
       /\ TouchStart(p[1], p[2], part)
  \/ \E p \in DragPoints : Events < MaxNoteEvents /\ TouchMove(1, p[1], p[2])
  \/ TouchEnd(1)
  \/ \E text \in NoteTexts : Events < MaxNoteEvents /\ NoteInput(text)
  \/ Events < MaxNoteEvents /\ ResetView
  \/ Events < MaxNoteEvents /\ ExportData
  \/ Events < MaxNoteEvents /\ ImportData(ImportFiles)
  \/ \E t \in timers : Timeout(t)
  \/ \E t \in timers : t.at > now /\ Tick(t.at - now)

SpecNotes == InitNotes /\ [][NextNotes]_vars

(***************************************************************************)
(* Z-order and note size, under SpecNotes.                                 *)
(***************************************************************************)
\* the note id is in notes, its zIndex is maxZ and above every other note's
OnTop(notes, maxZ, id) ==
  \E i \in 1..Len(notes) :
    /\ notes[i].id = id
    /\ notes[i].zIndex = maxZ
    /\ \A j \in 1..Len(notes) : j # i => notes[j].zIndex < maxZ

\* C7, as stated: on every step of every sequence of operations (creation,
\* press or focus, drag, resize, delete, reset, import) maxZIndex after the
\* step is >= maxZIndex before it.
C7_NeverDecreases == [][state'.maxZIndex >= state.maxZIndex]_vars

\* C7, amended: on every step that is not an import (creation, press or
\* focus, drag, resize, delete, reset, typing, export, timers) maxZIndex
\* after the step is >= maxZIndex before it.
C7_DecreasesOnlyByImport ==
  [][lastOp' # "import" => state'.maxZIndex >= state.maxZIndex]_vars

\* note 1 of NotesDoc was pressed on its delete button and deleted by
\* the click: maxZIndex stays at the value the press gave it
C7_AfterDelete ==
  /\ lastOp = "mouseup" /\ ev.target.part = "deleteBtn" /\ ev.arg = 1
  /\ Len(state.notes) = 1 /\ state.notes[1].id = 2
  /\ state.notes[1].zIndex = 3
  /\ state.maxZIndex = 4

\* C8: right after a mouse press on a note, a touch press on a note by the
\* only finger on the screen, or a step that moves the focus to a note, that
\* note's zIndex equals maxZIndex and is strictly greater than the zIndex of
\* every other note.
C8_PressedNoteOnTop ==
  [][/\ (lastOp' = "mousedown" /\ ev'.target.id # NoNote)
          => OnTop(state'.notes, state'.maxZIndex, ev'.target.id)
     /\ (lastOp' = "touchstart" /\ ev'.arg = 1 /\ ev'.target.id # NoNote)
          => OnTop(state'.notes, state'.maxZIndex, ev'.target.id)
     /\ (focused' # focused /\ focused' # NoNote)
          => OnTop(state'.notes, state'.maxZIndex, focused')]_vars

\* note 1 of NotesDoc, below note 2, was pressed by one finger and is on top
C8_AfterTouchPress ==
  /\ lastOp = "touchstart" /\ ev.arg = 1 /\ ev.target.id = 1
  /\ Len(state.notes) = 2
  /\ state.notes[1].zIndex = 4 /\ state.notes[2].zIndex = 3
  /\ state.maxZIndex = 4

\* C9: in every reachable state maxZIndex >= the zIndex of every note, and
\* no two notes have the same zIndex.
C9_ZOrderStrict ==
  LET notes == state.notes
  IN  /\ \A i \in 1..Len(notes) : notes[i].zIndex <= state.maxZIndex
      /\ \A i, j \in 1..Len(notes) : i # j => notes[i].zIndex # notes[j].zIndex

\* a note created by a click next to the two of NotesDoc, then focused by
\* its focus timeout
C9_ThreeNotes ==
  /\ Len(state.notes) = 3
  /\ state.notes[3].zIndex = 5 /\ state.maxZIndex = 5
  /\ focused = state.notes[3].id

\* C10: in every reachable state, during a resize and after its release
\* included, every note has width >= 150 and height >= 150.
C10_MinSize ==
  \A i \in 1..Len(state.notes) :
    /\ RLe(I(MIN_NOTE_SIZE), state.notes[i].width)
    /\ RLe(I(MIN_NOTE_SIZE), state.notes[i].height)

(***************************************************************************)
(* Dragging and resizing one note, by mouse and by one finger.             *)
(***************************************************************************)
MaxDragEvents == 2

\* one note at the world origin, seen at zoom 1 from the origin
DragDoc == Doc(<<StoredNote(1, 0, 0, 150, 150, 2)>>)

\* where a button or finger is pressed.  In DragDoc: the body of the note,
\* its resize handle, the canvas.  In ClickDoc (zoom 2): the body, the body,
\* the resize handle.
GrabPoints == {<<40, 40>>, <<130, 130>>, <<290, 260>>}
\* where a held pointer or finger is moved to and released: within the
\* drag thresholds of the first grab point, and beyond them
PullPoints == {<<43, 44>>, <<63, 87>>}

InitDrag == \E doc \in {DragDoc, ClickDoc} : InitWith(doc, SmallViewport)

NextDrag ==
  \/ \E p \in GrabPoints, part \in {"canvas", "textarea"} :
       Events < MaxDragEvents /\ MouseDown(p[1], p[2], part)
  \/ \E p \in PullPoints, part \in {"canvas", "textarea"} :
       Events < MaxDragEvents /\ MouseMove(p[1], p[2], part)
  \/ \E p \in GrabPoints \cup PullPoints, part \in {"canvas", "textarea"} :
       /\ <<p[1], p[2]>> = <<mouse.x, mouse.y>> \/ p \in PullPoints
       /\ MouseUp(p[1], p[2], part, FALSE, FALSE)
  \/ \E p \in GrabPoints, part \in {"canvas", "textarea"} :
       /\ fingers = <<>>
       /\ Events < MaxDragEvents
       /\ TouchStart(p[1], p[2], part)
  \/ \E p \in PullPoints : Events < MaxDragEvents /\ TouchMove(1, p[1], p[2])
  \/ TouchEnd(1)
  \/ \E t \in timers : Timeout(t)
  \/ \E t \in timers : t.at > now /\ Tick(t.at - now)

SpecDrag == InitDrag /\ [][NextDrag]_vars

\* the note id of a note collection
NoteIn(notes, id) == notes[CHOOSE i \in 1..Len(notes) : notes[i].id = id]
\* v is a number and a whole multiple of 10
Mult10(v) == ~IsNaN(v) /\ v[2] = 1 /\ v[1] % GRID_SIZE = 0
\* the step is a release that completes the drag, the resize, in progress
DragReleased ==
  /\ lastOp' \in {"mouseup", "touchend"}
  /\ Dragging(Cur) /\ ~isDraggingNote'
ResizeReleased ==
  /\ lastOp' \in {"mouseup", "touchend"}
  /\ Resizing(Cur) /\ ~isResizingNote'

\* C11: after the release that completes a note drag the note's x and y are
\* multiples of 10, and after the release that completes a note resize its
\* width and height are multiples of 10, by mouse and by touch.
C11_SnappedOnRelease ==
  [][/\ DragReleased =>
          /\ Mult10(NoteIn(state'.notes, currentNote).x)
          /\ Mult10(NoteIn(state'.notes, currentNote).y)
     /\ ResizeReleased =>
          /\ Mult10(NoteIn(state'.notes, currentNote).width)
          /\ Mult10(NoteIn(state'.notes, currentNote).height)]_vars

\* a and b are numbers at most d apart
Within(a, b, d) == RLe(RSub(a, b), I(d)) /\ RLe(RSub(b, a), I(d))

\* C12: after every pointer move of a drag the dragged note's world position
\* is (pointer - press offset within the note - pan) / zoom, the offset being
\* the press point minus the note's screen corner; the release that completes
\* the drag replaces x and y, each on its own, by the nearest multiple of 10.
C12_DragFollowsPointer ==
  [][/\ (/\ lastOp' \in {"mousemove", "touchmove"}
         /\ isDraggingNote' /\ ~isResizingNote' /\ currentNote' # NoNote)
          => LET n == NoteIn(state'.notes, currentNote')
                 off == noteDragData'.dragOffset
             IN  /\ n.x = RDiv(RSub(RSub(I(ev'.x), off.x), state'.panX), state'.zoom)
                 /\ n.y = RDiv(RSub(RSub(I(ev'.y), off.y), state'.panY), state'.zoom)
     /\ (lastOp' = "mousemove" /\ mouse.down /\ ~isDraggingNote /\ isDraggingNote')
          => LET rect == NoteRect(Cur, NoteIn(state.notes, currentNote'))
                 off == noteDragData'.dragOffset
             IN  /\ off.x = RSub(I(mouse.x), rect.left)
                 /\ off.y = RSub(I(mouse.y), rect.top)
     /\ DragReleased
          => LET before == NoteIn(state.notes, currentNote)
                 after == NoteIn(state'.notes, currentNote)
             IN  /\ Mult10(after.x) /\ Within(after.x, before.x, 5)
                 /\ Mult10(after.y) /\ Within(after.y, before.y, 5)]_vars

\* the note of DragDoc, pressed at (40, 40), dragged by (23, 47) and released
C12_DraggedAndSnapped ==
  /\ lastOp = "mouseup" /\ mouse.x = 40 /\ mouse.y = 40
  /\ ev.x = 63 /\ ev.y = 87
  /\ state.zoom = I(1) /\ state.panX = I(0)
  /\ state.notes[1].x = I(20) /\ state.notes[1].y = I(50)
  /\ ~isDraggingNote

(***************************************************************************)
(* Resetting the view, by the control, a double click and a double tap,    *)
(* over boards of up to two notes.                                         *)
(***************************************************************************)
MaxResetEvents == 2

\* notes a board can hold: x, y, width, height.  The last one lies so far
\* from the others that a box holding both is wider than 8 viewports.
ResetNotes ==
  {<<0, 0, 150, 150>>, <<-300, 400, 150, 600>>, <<1000, 0, 3000, 150>>,
   <<4000, 200, 150, 150>>, <<20000, 0, 150, 150>>}
ResetDocs ==
  {Doc(<<>>)}
  \cup {Doc(<<StoredNote(1, a[1], a[2], a[3], a[4], 2)>>) : a \in ResetNotes}
  \cup {Doc(<<StoredNote(1, pr[1][1], pr[1][2], pr[1][3], pr[1][4], 2),
              StoredNote(2, pr[2][1], pr[2][2], pr[2][3], pr[2][4], 3)>>) :
          pr \in {q \in ResetNotes \X ResetNotes : q[1] # q[2]}}
\* a point of the canvas no note of ResetNotes covers at zoom 1
ResetPoints == {<<200, 170>>}

InitReset ==
  \E doc \in ResetDocs, rect \in {SmallViewport, LargeViewport} :
    InitWith(doc, rect)

NextReset ==
  \/ Events < MaxResetEvents /\ ResetView
  \/ \E p \in ResetPoints :
       Events < MaxResetEvents /\ MouseDown(p[1], p[2], "canvas")
  \/ \E p \in ResetPoints, dbl \in BOOLEAN :
       MouseUp(p[1], p[2], "canvas", FALSE, dbl)
  \/ \E p \in ResetPoints :
       /\ fingers = <<>>
       /\ Events < MaxResetEvents
       /\ TouchStart(p[1], p[2], "canvas")
  \/ TouchEnd(1)
  \/ \E t \in timers : Timeout(t)
  \/ \E t \in timers : t.at > now /\ Tick(t.at - now)

SpecReset == InitReset /\ [][NextReset]_vars

\* the step runs resetView: the control, a double click or a double tap on
\* the canvas
DoubleReset ==
  \/ lastOp' = "mouseup" /\ ev'.arg = 2 /\ ev'.target = Canvas
  \/ lastOp' = "touchend" /\ ev'.arg = 2 /\ ev'.target = Canvas
ResetStep == lastOp' = "resetView" \/ DoubleReset

\* the bounding box of the rectangles of a non-empty note collection
Box(ns) ==
  LET idx == 1..Len(ns)
  IN  [left |-> CHOOSE v \in {ns[i].x : i \in idx} : \A i \in idx : RLe(v, ns[i].x),
       top |-> CHOOSE v \in {ns[i].y : i \in idx} : \A i \in idx : RLe(v, ns[i].y),
       right |-> CHOOSE v \in {RAdd(ns[i].x, ns[i].width) : i \in idx} :
                   \A i \in idx : RLe(RAdd(ns[i].x, ns[i].width), v),
       bottom |-> CHOOSE v \in {RAdd(ns[i].y, ns[i].height) : i \in idx} :
                    \A i \in idx : RLe(RAdd(ns[i].y, ns[i].height), v)]

\* the zoom at which the box fills 80% of the viewport on its tighter axis
FitZoom(box, rect) ==
  LET w == RDiv(RMul(<<4, 5>>, I(rect.width)), RSub(box.right, box.left))
      h == RDiv(RMul(<<4, 5>>, I(rect.height)), RSub(box.bottom, box.top))
  IN  IF RLt(h, w) THEN h ELSE w

\* v clamped to [0.1, 5]
Clamped(v) ==
  IF RLt(v, <<1, 10>>) THEN <<1, 10>> ELSE IF RLt(I(5), v) THEN I(5) ELSE v

\* at this zoom and pan the centre of the box is at the centre of the viewport
Centred(box, rect, zoom, panX, panY) ==
  /\ RAdd(RMul(RDiv(RAdd(box.left, box.right), I(2)), zoom), panX)
       = RDiv(I(rect.width), I(2))
  /\ RAdd(RMul(RDiv(RAdd(box.top, box.bottom), I(2)), zoom), panY)
       = RDiv(I(rect.height), I(2))

\* the view resetView is to give over the notes ns
ViewFits(ns, rect, zoom, panX, panY) ==
  IF ns = <<>>
  THEN zoom = I(1) /\ panX = I(0) /\ panY = I(0)
  ELSE /\ zoom = Clamped(FitZoom(Box(ns), rect))
       /\ Centred(Box(ns), rect, zoom, panX, panY)

\* C13: resetView over no notes sets zoom 1 and pan (0, 0); over notes it
\* sets zoom to the fit zoom of their bounding box clamped to [0.1, 5], and
\* the pan so that the box centre times zoom plus pan is the viewport centre
\* on both axes.
C13_ResetViewFits ==
  [][ResetStep =>
       ViewFits(state'.notes, viewportRect,
                state'.zoom, state'.panX, state'.panY)]_vars

\* the 150 x 150 note at the origin, centred in the 400 x 300 viewport at
\* zoom 1.6 by a double click
C13_SingleNoteCentred ==
  /\ lastOp = "mouseup" /\ ev.arg = 2
  /\ viewportRect = SmallViewport
  /\ Len(state.notes) = 1 /\ state.notes[1].x = I(0) /\ state.notes[1].y = I(0)
  /\ state.notes[1].width = I(150) /\ state.notes[1].height = I(150)
  /\ state.zoom = <<8, 5>> /\ state.panX = I(80) /\ state.panY = I(30)

\* on screen, at this zoom and pan, the rectangle of note n lies within the
\* viewport
InView(n, rect, zoom, panX, panY) ==
  /\ RLe(I(0), RAdd(RMul(n.x, zoom), panX))
  /\ RLe(I(0), RAdd(RMul(n.y, zoom), panY))
  /\ RLe(RAdd(RMul(RAdd(n.x, n.width), zoom), panX), I(rect.width))
  /\ RLe(RAdd(RMul(RAdd(n.y, n.height), zoom), panY), I(rect.height))
AllInView(ns, rect, zoom, panX, panY) ==
  \A i \in 1..Len(ns) : InView(ns[i], rect, zoom, panX, panY)
\* the box of the notes ns fits the viewport at a zoom of 0.1 or more
FitsAtMinZoom(ns, rect) == RLe(<<1, 10>>, FitZoom(Box(ns), rect))

MaxBackupEvents == 4

\* the files a user drops: not JSON, JSON without a version, JSON without a
\* state, and the backup of an empty board
BackupFiles ==
  {Unparseable, File(0, ClickDoc), File(1, Null), File(1, DefaultState)}
\* the body and the resize handle of the note of DragDoc
HoldPoints == {<<40, 40>>, <<130, 130>>}
StretchPoints == {<<163, 187>>}

InitBackup == \E doc \in {Null, DragDoc} : InitWith(doc, SmallViewport)

NextBackup ==
  \/ \E p \in HoldPoints :
       /\ fingers = <<>>
       /\ Events < MaxBackupEvents
       /\ TouchStart(p[1], p[2], "textarea")
  \/ \E p \in StretchPoints : Events < MaxBackupEvents /\ TouchMove(1, p[1], p[2])
  \/ TouchEnd(1)
  \/ \E p \in StretchPoints, part \in {"canvas", "textarea"} :
       Events < MaxBackupEvents /\ MouseMove(p[1], p[2], part)
  \/ Events < MaxBackupEvents /\ ExportData
  \/ Events < MaxBackupEvents /\ ImportData(BackupFiles)
  \/ \E t \in timers : Timeout(t)
  \/ \E t \in timers : t.at > now /\ Tick(t.at - now)

SpecBackup == InitBackup /\ [][NextBackup]_vars

\* the documents a and b agree in viewport, maxZIndex and notes
SameDoc(a, b) ==
  /\ a.zoom = b.zoom /\ a.panX = b.panX /\ a.panY = b.panY
  /\ a.maxZIndex = b.maxZIndex
  /\ a.notes = b.notes

\* C15: the payload an export writes holds the notes, maxZIndex and viewport
\* of the document, and an import of the exported payload makes the document
\* equal to it in these: export then import reproduces the document as it
\* was at export time.
C15_RoundTrip ==
  [][/\ lastOp' = "export" => SameDoc(backup'.state, state')
     /\ (lastOp' = "import" /\ ev'.arg.file = backup)
          => SameDoc(state', backup.state)]_vars

\* a file that does not parse, or holds no version, or holds no state
Malformed(file) == ~file.parses \/ file.version = 0 \/ file.state = Null

\* C16: an import of a malformed file is rejected and leaves the document,
\* the rendered notes and both stores as they were.
C16_MalformedImportRejected ==
  [][(lastOp' = "import" /\ Malformed(ev'.arg.file)) =>
       /\ ev'.arg.rejected
       /\ state' = state
       /\ rendered' = rendered
       /\ idb' = idb /\ ls' = ls]_vars

\* a file without a version, holding another board, was dropped on the
\* board of DragDoc after its note was pressed: the note is still there
C16_VersionlessRejected ==
  /\ lastOp = "import" /\ ev.arg.rejected
  /\ ev.arg.file = File(0, ClickDoc)
  /\ budget.touch = 1
  /\ state.zoom = I(1) /\ Len(state.notes) = 1 /\ state.notes[1].zIndex = 3
  /\ rendered = {1} /\ idb = state

(***************************************************************************)
(* The two stores: what init() loads from them, and what the saves of      *)
(* view changes and note creation write while requests fail and succeed.   *)
(***************************************************************************)
MaxStoreEvents == 3

\* what earlier sessions left: the record of the primary store, the entry
\* of the fallback store, whether the database opens
StoredPrimary == {Null, DragDoc}
StoredFallback == {Null, Stringify(ClickDoc)}
\* a point of the canvas in both boards
StorePoints == {<<350, 295>>}

InitStore ==
  \E primary \in StoredPrimary, fallback \in StoredFallback, up \in BOOLEAN :
    InitFrom(primary, fallback, up, SmallViewport)

NextStore ==
  \/ \E db \in BOOLEAN, l \in BOOLEAN :
       Events < MaxStoreEvents /\ StoreHealth(db, l)
  \/ Events < MaxStoreEvents /\ ResetView
  \/ \E p \in StorePoints, d \in WheelDeltas :
       Events < MaxStoreEvents /\ Wheel(p[1], p[2], "canvas", d)
  \/ \E p \in StorePoints :
       Events < MaxStoreEvents /\ MouseDown(p[1], p[2], "canvas")
  \/ \E p \in StorePoints : MouseUp(p[1], p[2], "canvas", FALSE, FALSE)
  \/ \E t \in timers : Timeout(t)
  \/ \E t \in timers : t.at > now /\ Tick(t.at - now)

SpecStore == InitStore /\ [][NextStore]_vars

\* C17: after init() the document is the primary store's record when the
\* primary read succeeds and finds one; it is the fallback store's document
\* when the primary read fails or finds no record and the fallback store
\* holds one; it is the default document only when neither store yields one.
C17_LoadFallsBack ==
  lastOp = "init" =>
    IF dbUp /\ idb # Null THEN SameDoc(state, idb)
    ELSE IF lsUp /\ ls # Null THEN SameDoc(state, ls)
    ELSE state = DefaultState

\* the step runs an operation that ends in saveState(): a view reset, a
\* wheel zoom; or one that calls it midway: the creation of a note
SaveLast == lastOp' \in {"resetView", "wheel"}
SaveMidway == lastOp' = "timeout" /\ ev'.arg.kind = "click"

\* C18: a save writes the whole document to the primary store; when that
\* write fails, to the fallback store; when both fail it stores nothing and
\* queues no retry.  Its caller runs on (a created note still gets its focus
\* timeout), the document in memory is the one the operation made, and the
\* save of the next operation is attempted in the same way.
C18_SaveBestEffort ==
  [][/\ (SaveLast \/ SaveMidway) =>
          /\ dbUp => idb' = state' /\ ls' = ls
          /\ (~dbUp /\ lsUp) => ls' # Null /\ SameDoc(ls', state') /\ idb' = idb
          /\ (~dbUp /\ ~lsUp) => idb' = idb /\ ls' = ls
     /\ SaveLast => timers' = timers
     /\ lastOp' = "resetView" =>
          ViewFits(state'.notes, viewportRect,
                   state'.zoom, state'.panX, state'.panY)
     /\ SaveMidway =>
          /\ Len(state'.notes) = Len(state.notes) + 1
          /\ timers' \ timers =
               {[kind |-> "focus", at |-> now + FOCUS_DELAY,
                 id |-> state'.notes[Len(state'.notes)].id, dbl |-> FALSE]}]_vars

\* the view was reset, after a wheel zoom, while the primary store failed:
\* the fallback store holds the document, the primary store the one it had
C18_SavedToFallback ==
  /\ lastOp = "resetView" /\ ~dbUp /\ lsUp
  /\ budget.wheel = 1
  /\ ls # Null /\ SameDoc(ls, state)
  /\ idb # Null /\ idb.zoom # state.zoom

(***************************************************************************)
(* Deleting notes with and without content, with the confirmation given    *)
(* and declined.                                                           *)
(***************************************************************************)
MaxDeleteEvents == 3

\* note 1 holds text, note 2 is empty; on screen they cover
\* [0, 150) x [0, 150) and [200, 350) x [0, 150)
DeleteDoc ==
  Doc(<<[StoredNote(1, 0, 0, 150, 150, 2) EXCEPT !.content = "a"],
        StoredNote(2, 200, 0, 150, 150, 3)>>)
DeletePoints == {<<40, 40>>, <<240, 40>>}
DeleteTexts == {"", "b"}

InitDelete == InitWith(DeleteDoc, SmallViewport)

NextDelete ==
  \/ \E p \in DeletePoints, part \in {"textarea", "deleteBtn"} :
       Events < MaxDeleteEvents /\ MouseDown(p[1], p[2], part)
  \/ \E p \in DeletePoints, part \in {"textarea", "deleteBtn"},
        confirmed \in BOOLEAN :
       MouseUp(p[1], p[2], part, confirmed, FALSE)
  \/ \E text \in DeleteTexts : Events < MaxDeleteEvents /\ NoteInput(text)

SpecDelete == InitDelete /\ [][NextDelete]_vars

\* after is before without the note id, every other note as it was
Removed(before, after, id) ==
  /\ \A j \in 1..Len(after) : after[j].id # id
  /\ Len(after) = Len(before) - 1
  /\ \A i \in 1..Len(before) :
       before[i].id # id => \E j \in 1..Len(after) : after[j] = before[i]

\* C19: a click on the delete button of a note without content removes the
\* note; on a note with content it removes the note when the user confirms,
\* and when the user declines the notes and the stored document stay as
\* they were.  A removal leaves every other note unchanged.
C19_DeleteAsksForContent ==
  [][\A id \in {state.notes[i].id : i \in 1..Len(state.notes)} :
       (/\ lastOp' = "mouseup" /\ ev'.arg = 1
        /\ ev'.target = [id |-> id, part |-> "deleteBtn"]) =>
         IF NoteIn(state.notes, id).content = "" \/ mouse'.confirmed
         THEN Removed(state.notes, state'.notes, id)
         ELSE state'.notes = state.notes /\ idb' = idb /\ ls' = ls]_vars

\* the delete button of the note holding text was clicked and the
\* confirmation declined: both notes are there
C19_DeclinedKeepsNote ==
  /\ lastOp = "mouseup" /\ ev.arg = 1
  /\ ev.target = [id |-> 1, part |-> "deleteBtn"]
  /\ ~mouse.confirmed
  /\ Len(state.notes) = 2 /\ state.notes[1].content = "a"
  /\ idb = state

(***************************************************************************)
(* Saving: the colour palette, the wheel, presses and releases on the      *)
(* canvas and on a note, with both stores working.                         *)
(***************************************************************************)
MaxSaveEvents == 3
MaxSaveWheels == 1

SavePoints == {<<40, 40>>, <<350, 295>>}
SaveParts == {"canvas", "textarea", "colorBtn", "palette"}
\* soft red and the default yellow
SwatchColors == {1, DEFAULT_COLOR}
SaveDeltas == {-100}

InitSave == \E doc \in {Null, DragDoc} : InitWith(doc, SmallViewport)

\* the pointer is over the element: inside a palette it reaches nothing else
PointerOver(part) == mouse.hover = NoNote \/ part = "palette"

NextSave ==
  \/ \E p \in SavePoints, part \in SaveParts :
       Events < MaxSaveEvents /\ PointerOver(part) /\ MouseDown(p[1], p[2], part)
  \/ \E p \in SavePoints, part \in SaveParts :
       PointerOver(part) /\ MouseUp(p[1], p[2], part, FALSE, FALSE)
  \/ \E p \in SavePoints, color \in SwatchColors :
       Events < MaxSaveEvents /\ PaletteHover(p[1], p[2], color)
  \/ \E p \in SavePoints, part \in SaveParts :
       Events < MaxSaveEvents /\ PaletteLeave(p[1], p[2], part)
  \/ \E p \in SavePoints, part \in SaveParts, d \in SaveDeltas :
       /\ Events < MaxSaveEvents /\ budget.wheel < MaxSaveWheels
       /\ PointerOver(part) /\ Wheel(p[1], p[2], part, d)
  \/ \E text \in DeleteTexts :
       Events < MaxSaveEvents /\ mouse.hover = NoNote /\ NoteInput(text)
  \/ \E t \in timers : Timeout(t)
  \/ \E t \in timers : t.at > now /\ Tick(t.at - now)

SpecSave == InitSave /\ [][NextSave]_vars

\* no button and no finger is down and no timeout is pending
Quiet == ~mouse.down /\ fingers = <<>> /\ timers = {}

\* the document last handed to the store; nothing is handed to it before
\* the first mutation of a fresh document
LastSaved == IF idb = Null THEN DefaultState ELSE idb

\* C20: whenever no gesture is in progress and no timer is pending, the
\* document last saved equals the document in memory in viewport, maxZIndex
\* and every note's position, size, content, colour and zIndex.
C20_SavedAfterEveryMutation == Quiet => SameDoc(LastSaved, state)

(***************************************************************************)
(* Gestures on a note and its controls: wheel, mouse and touch, with one   *)
(* and two fingers.                                                        *)
(***************************************************************************)
MaxTargetEvents == 2

\* on the note of DragDoc, outside its resize handle, and on the canvas; the
\* note spots are 50 apart
NoteSpots == {<<40, 40>>, <<70, 80>>}
CanvasSpots == {<<300, 200>>}
TargetDeltas == {-100}

InitTarget == InitWith(DragDoc, SmallViewport)

NextTarget ==
  \/ \E p \in NoteSpots \cup CanvasSpots, part \in NoteParts \cup {"canvas"} :
       Events < MaxTargetEvents /\ MouseDown(p[1], p[2], part)
  \/ \E p \in NoteSpots \cup CanvasSpots, part \in NoteParts \cup {"canvas"} :
       Events < MaxTargetEvents /\ MouseMove(p[1], p[2], part)
  \/ \E p \in NoteSpots \cup CanvasSpots, part \in NoteParts \cup {"canvas"},
        dbl \in BOOLEAN :
       MouseUp(p[1], p[2], part, FALSE, dbl)
  \/ \E p \in NoteSpots \cup CanvasSpots, part \in NoteParts \cup {"canvas"},
        d \in TargetDeltas :
       Events < MaxTargetEvents /\ Wheel(p[1], p[2], part, d)
  \/ \E p \in NoteSpots \cup CanvasSpots, part \in NoteParts \cup {"canvas"} :
       /\ Len(fingers) < 2
       /\ Events < MaxTargetEvents
       /\ TouchStart(p[1], p[2], part)
  \/ \E i \in 1..2, p \in NoteSpots :
       Events < MaxTargetEvents /\ TouchMove(i, p[1], p[2])
  \/ \E i \in 1..2 : TouchEnd(i)
  \/ \E t \in timers : Timeout(t)
  \/ \E t \in timers : t.at > now /\ Tick(t.at - now)

SpecTarget == InitTarget /\ [][NextTarget]_vars

\* every finger of fs was put down on a note or one of its controls
OnNotes(fs) == \A i \in 1..Len(fs) : fs[i].target.id # NoNote

\* the step is an event of a gesture whose target is a note, a swatch, a
\* delete control or an open palette
NoteGesture ==
  \/ lastOp' \in {"wheel", "mousedown"} /\ ev'.target.id # NoNote
  \/ lastOp' \in {"mousemove", "mouseup"} /\ mouse.down /\ mouse.target.id # NoNote
  \/ /\ lastOp' \in {"touchstart", "touchmove", "touchend"}
     /\ OnNotes(fingers) /\ OnNotes(fingers')

\* the step arms no note creation timeout
ArmsNoCreation ==
  \A t \in timers' :
    t.kind \in {"click", "tap"} =>
      \E u \in timers : u.kind = t.kind /\ u.at = t.at

\* C21: an event of a gesture whose target is a note, a colour swatch, a
\* delete control or an open palette leaves zoom, panX and panY as they
\* were, resets no view and arms no canvas note creation: mouse press and
\* drag, double click, wheel, one finger, double tap and two fingers alike.
C21_NoteGesturesKeepView ==
  [][NoteGesture =>
       /\ state'.zoom = state.zoom
       /\ state'.panX = state.panX /\ state'.panY = state.panY
       /\ doubleTapDetected' = doubleTapDetected
       /\ ArmsNoCreation]_vars

(***************************************************************************)
(* Mouse and two fingers on one note and the canvas around it: presses on  *)
(* the body, the resize handle and the canvas, moves and releases.         *)
(***************************************************************************)
MaxGestureEvents == 2

\* in DragDoc: the body of the note, its resize handle, the canvas
GesturePoints == {<<40, 40>>, <<130, 130>>, <<300, 200>>}
\* a move beyond both drag thresholds of the body point; the points are
\* whole distances from each other
GestureMoves == {<<40, 80>>}
GestureParts == {"canvas", "textarea"}

InitGesture == InitWith(DragDoc, SmallViewport)

NextGesture ==
  \/ \E p \in GesturePoints, part \in GestureParts :
       Events < MaxGestureEvents /\ MouseDown(p[1], p[2], part)
  \/ \E p \in GestureMoves, part \in GestureParts :
       Events < MaxGestureEvents /\ MouseMove(p[1], p[2], part)
  \/ \E p \in GesturePoints \cup GestureMoves, part \in GestureParts :
       MouseUp(p[1], p[2], part, FALSE, FALSE)
  \/ \E p \in GesturePoints, part \in GestureParts :
       /\ Len(fingers) < 2
       /\ Events < MaxGestureEvents
       /\ TouchStart(p[1], p[2], part)
  \/ \E i \in 1..2, p \in GestureMoves :
       Events < MaxGestureEvents /\ TouchMove(i, p[1], p[2])
  \/ \E i \in 1..2 : TouchEnd(i)
  \/ \E t \in timers : Timeout(t)
  \/ \E t \in timers : t.at > now /\ Tick(t.at - now)

SpecGesture == InitGesture /\ [][NextGesture]_vars

\* C22: a viewport gesture (mouse pan, touch pan, pinch) and a note gesture
\* (drag or resize with a current note) are never active at the same time.
C22_OneControllerActive ==
  ~(/\ state.isDragging \/ isTouchPanning \/ isPinching
    /\ isDraggingNote \/ isResizingNote
    /\ currentNote # NoNote)

\* C23: isDraggingNote and isResizingNote are never both true.
C23_DragOrResize == ~(isDraggingNote /\ isResizingNote)

\* no note gesture is active and no note tracks a press
Idle ==
  /\ ~isDraggingNote /\ ~isResizingNote
  /\ currentNote = NoNote /\ noteDragData = Null /\ noteResizeData = Null
  /\ \A id \in DOMAIN noteMouseData : noteMouseData[id] = Null
  /\ \A id \in DOMAIN noteTouchData : noteTouchData[id] = Null

\* C26: with the mouse button up and no finger on the screen, wherever the
\* release landed, every note is idle: isDraggingNote and isResizingNote are
\* false, currentNote, noteDragData and noteResizeData are null and no note
\* tracks a press.
C26_IdleAfterRelease == (~mouse.down /\ fingers = <<>>) => Idle

(***************************************************************************)
(* Presses on the body of one note, focused or not, by mouse and by one    *)
(* finger, with moves up to and beyond the drag thresholds.                *)
(***************************************************************************)
MaxEditEvents == 3

\* the body of the note of DragDoc, away from its edges and 2 px from its
\* right edge
EditPoints == {<<40, 40>>, <<148, 40>>}
\* 5, 10 and 11 px right of the first point, and on the canvas 3 px right of
\* the second
EditMoves == {<<45, 40>>, <<50, 40>>, <<51, 40>>, <<151, 40>>}

InitEdit == InitWith(DragDoc, SmallViewport)

NextEdit ==
  \/ \E p \in EditPoints :
       Events < MaxEditEvents /\ MouseDown(p[1], p[2], "textarea")
  \/ \E p \in EditMoves, part \in GestureParts :
       Events < MaxEditEvents /\ mouse.down /\ MouseMove(p[1], p[2], part)
  \/ \E p \in EditPoints \cup EditMoves, part \in GestureParts :
       /\ <<p[1], p[2]>> = <<mouse.x, mouse.y>> \/ <<p[1], p[2]>> = <<ev.x, ev.y>>
       /\ MouseUp(p[1], p[2], part, FALSE, FALSE)
  \/ \E p \in EditPoints :
       /\ fingers = <<>>
       /\ Events < MaxEditEvents
       /\ TouchStart(p[1], p[2], "textarea")
  \/ \E p \in EditMoves : Events < MaxEditEvents /\ TouchMove(1, p[1], p[2])
  \/ TouchEnd(1)

SpecEdit == InitEdit /\ [][NextEdit]_vars

\* the step is a move of the mouse pressed, of the one finger put down, on
\* the body of note id while its text field held focus
FocusedPressMoved(id) ==
  \/ /\ lastOp' = "mousemove"
     /\ mouse.down /\ mouse.target = [id |-> id, part |-> "textarea"]
     /\ mouse.focus = id /\ focused = id
  \/ /\ lastOp' = "touchmove"
     /\ Len(fingers) = 1 /\ fingers[1].target = [id |-> id, part |-> "textarea"]
     /\ focused = id
     /\ noteTouchData[id] # Null /\ noteTouchData[id].wasFocused

\* C24: while the text field of a note holds focus, a press on the note's
\* body outside the resize handle followed by any pointer movement starts
\* no drag and leaves the note's position as it was, for a mouse press and
\* for a touch press.
C24_FocusedNoteStays ==
  [][\A id \in rendered :
       FocusedPressMoved(id) =>
         /\ ~isDraggingNote'
         /\ NoteIn(state'.notes, id).x = NoteIn(state.notes, id).x
         /\ NoteIn(state'.notes, id).y = NoteIn(state.notes, id).y]_vars

\* the point (x, y) is at most d from (x0, y0) on both axes
Near(x, y, x0, y0, d) == Abs(x - x0) <= d /\ Abs(y - y0) <= d

\* the pointer of the step's event is held on the body of note id, pressed
\* while the note was not focused, no drag started, and is within the drag
\* threshold of its press point
WithinThreshold(id) ==
  \/ /\ lastOp' \in {"mousemove", "mouseup"}
     /\ mouse.down /\ mouse.target = [id |-> id, part |-> "textarea"]
     /\ mouse.focus # id /\ ~isDraggingNote /\ ~isResizingNote
     /\ Near(ev'.x, ev'.y, mouse.x, mouse.y, NOTE_DRAG_THRESHOLD)
  \/ /\ lastOp' \in {"touchmove", "touchend"}
     /\ Len(fingers) = 1 /\ fingers[1].target = [id |-> id, part |-> "textarea"]
     /\ noteTouchData[id] # Null /\ ~noteTouchData[id].wasFocused
     /\ ~isDraggingNote /\ ~isResizingNote
     /\ Near(ev'.x, ev'.y, tapStartX, tapStartY, NOTE_TOUCH_DRAG_THRESHOLD)

\* C25: a press on the body of an unfocused note leaves the note where it is
\* while the pointer stays within 5 px (mouse), 10 px (touch) of the press
\* point on both axes; a release within it leaves position and size
\* unchanged and gives the text field the focus.
C25_ThresholdThenFocus ==
  [][\A id \in rendered :
       WithinThreshold(id) =>
         /\ NoteIn(state'.notes, id).x = NoteIn(state.notes, id).x
         /\ NoteIn(state'.notes, id).y = NoteIn(state.notes, id).y
         /\ NoteIn(state'.notes, id).width = NoteIn(state.notes, id).width
         /\ NoteIn(state'.notes, id).height = NoteIn(state.notes, id).height
         /\ ~isDraggingNote'
         /\ lastOp' \in {"mouseup", "touchend"} => focused' = id]_vars

(***************************************************************************)
(* Deleting the note that is being dragged or resized.                     *)
(***************************************************************************)
MaxCancelEvents == 3

\* in DragDoc: the body of the note and its resize handle
CancelPoints == {<<40, 40>>, <<130, 130>>}
CancelMoves == {<<40, 80>>}
CancelParts == {"textarea", "deleteBtn"}

InitCancel == InitWith(DragDoc, SmallViewport)

NextCancel ==
  \/ \E p \in CancelPoints, part \in CancelParts :
       Events < MaxCancelEvents /\ MouseDown(p[1], p[2], part)
  \/ \E p \in CancelMoves, part \in CancelParts \cup {"canvas"} :
       Events < MaxCancelEvents /\ MouseMove(p[1], p[2], part)
  \/ \E p \in CancelPoints \cup CancelMoves, part \in CancelParts \cup {"canvas"} :
       /\ <<p[1], p[2]>> = <<mouse.x, mouse.y>> \/ <<p[1], p[2]>> = <<ev.x, ev.y>>
       /\ MouseUp(p[1], p[2], part, FALSE, FALSE)
  \/ \E p \in CancelPoints :
       /\ fingers = <<>>
       /\ Events < MaxCancelEvents
       /\ TouchStart(p[1], p[2], "textarea")
  \/ \E p \in CancelMoves : Events < MaxCancelEvents /\ TouchMove(1, p[1], p[2])
  \/ TouchEnd(1)
  \/ \E id \in rendered : Events < MaxCancelEvents /\ DeleteKey(id, FALSE)

SpecCancel == InitCancel /\ [][NextCancel]_vars

\* a drag or resize of note id is in progress
GestureOn(id) ==
  /\ isDraggingNote \/ isResizingNote
  /\ \/ currentNote = id
     \/ noteDragData # Null /\ noteDragData.id = id
     \/ noteResizeData # Null /\ noteResizeData.id = id

\* the step is a click on the delete button of note id that removes it
Deleted(id) ==
  /\ lastOp' \in {"mouseup", "deletekey"}
  /\ ev'.target = [id |-> id, part |-> "deleteBtn"]
  /\ HasNote(Cur, id)
  /\ \A i \in 1..Len(state'.notes) : state'.notes[i].id # id

\* C27: when a note is deleted while it is being dragged or resized, then
\* after deleteNote isDraggingNote and isResizingNote are false and
\* currentNote, noteDragData and noteResizeData do not refer to the deleted
\* note; no later pointer move runs the drag or resize branch on a deleted
\* note.
C27_DeleteCancelsGesture ==
  [][/\ \A id \in rendered :
          (Deleted(id) /\ GestureOn(id)) =>
            /\ ~isDraggingNote' /\ ~isResizingNote'
            /\ currentNote' # id
            /\ noteDragData' = Null \/ noteDragData'.id # id
            /\ noteResizeData' = Null \/ noteResizeData'.id # id
     /\ (/\ lastOp' \in {"mousemove", "touchmove"}
         /\ Resizing(Cur) \/ Dragging(Cur))
          => HasNote(Cur, currentNote)]_vars

(***************************************************************************)
(* The colour palette of a note: opening it, hovering swatches, clicking a *)
(* swatch, clicking outside.                                               *)
(***************************************************************************)
MaxPaletteEvents == 5

\* on the note of DragDoc and on the canvas
PalettePoints == {<<40, 40>>, <<350, 295>>}
\* soft red and soft blue
PaletteColors == {1, 5}

InitPalette == InitWith(DragDoc, SmallViewport)

\* the pointer can reach the element: a swatch after it entered it, and
\* anything else when it is in no palette
Reaches(p, part) ==
  IF part = "palette"
  THEN mouse.hover # NoNote /\ mouse.hover = ElementFromPoint(Cur, p[1], p[2])
  ELSE mouse.hover = NoNote

NextPalette ==
  \/ \E p \in PalettePoints, part \in SaveParts :
       /\ Events < MaxPaletteEvents
       /\ Reaches(p, part)
       /\ MouseDown(p[1], p[2], part)
  \/ \E p \in PalettePoints, part \in SaveParts :
       /\ Reaches(p, part)
       /\ <<p[1], p[2]>> = <<mouse.x, mouse.y>>
       /\ MouseUp(p[1], p[2], part, FALSE, FALSE)
  \/ \E p \in PalettePoints, color \in PaletteColors :
       /\ Events < MaxPaletteEvents
       /\ ~mouse.down
       /\ PaletteHover(p[1], p[2], color)
  \/ \E p \in PalettePoints, part \in SaveParts :
       /\ Events < MaxPaletteEvents
       /\ ~mouse.down
       /\ PaletteLeave(p[1], p[2], part)
  \/ \E t \in timers : Timeout(t)
  \/ \E t \in timers : t.at > now /\ Tick(t.at - now)

SpecPalette == InitPalette /\ [][NextPalette]_vars

\* the step is a click on an element of kind part
Clicked(parts) ==
  lastOp' = "mouseup" /\ ev'.arg = 1 /\ ev'.target.part \in parts

\* the colour of note id
ColourOf(notes, id) == NoteIn(notes, id).color

\* C28: the colour a note had when its palette was opened is kept, through
\* every hover, as the colour to revert to; a click outside the open palette
\* closes it and leaves the note with that colour; a click on a swatch closes
\* the palette and leaves the note with the swatch's colour, and later clicks
\* outside leave that colour in place.
C28_PaletteCommitsOrReverts ==
  [][\A id \in rendered \cap {state.notes[i].id : i \in 1..Len(state.notes)} :
       /\ (id \notin paletteShow /\ id \in paletteShow')
            => originalColor'[id] = ColourOf(state.notes, id)
       /\ (id \in paletteShow /\ id \in paletteShow')
            => originalColor'[id] = originalColor[id]
       /\ (id \in paletteShow /\ Clicked({"canvas", "textarea"}))
            => /\ id \notin paletteShow'
               /\ ColourOf(state'.notes, id) = originalColor[id]
       /\ (id \in paletteShow /\ Clicked({"palette"}) /\ ev'.target.id = id)
            => /\ id \notin paletteShow'
               /\ ColourOf(state'.notes, id) = mouse.swatch
       /\ (id \notin paletteShow /\ Clicked({"canvas", "textarea"}))
            => ColourOf(state'.notes, id) = ColourOf(state.notes, id)]_vars

\* soft red was chosen by a click on its swatch, and a click on the canvas
\* has left it in place
C28_ChosenColourStays ==
  /\ lastOp = "mouseup" /\ ev.arg = 1 /\ ev.target = Canvas
  /\ paletteShow = {}
  /\ mouse.swatch = 1
  /\ ColourOf(state.notes, 1) = 1

(***************************************************************************)
(* SpecTapEdge: one finger put down on the empty canvas, moved by 10 or 11 *)
(* px, held for up to 251 ms and lifted, and the timeouts this arms.       *)
(***************************************************************************)
MaxEdgeEvents == 3
MaxEdgeTime == 251

\* where the finger goes down
EdgeStart == <<100, 100>>

\* 10 and 11 px from EdgeStart on either axis
EdgeMoves == {<<110, 100>>, <<111, 100>>, <<100, 110>>, <<100, 111>>}

\* the finger is held 249 ms, then 1 ms at a time: 249 + 1 = TAP_MAX_DURATION
EdgeSteps == {1, TAP_MAX_DURATION - 1}

InitEdge == InitWith(Null, SmallViewport)

NextEdge ==
  \/ /\ fingers = <<>>
     /\ Events < MaxEdgeEvents
     /\ TouchStart(EdgeStart[1], EdgeStart[2], "canvas")
  \/ \E p \in EdgeMoves : Events < MaxEdgeEvents /\ TouchMove(1, p[1], p[2])
  \/ TouchEnd(1)
  \/ \E t \in timers : Timeout(t)
  \/ \E d \in EdgeSteps :
       /\ fingers # <<>>
       /\ now + d <= tapStartTime + MaxEdgeTime
       /\ now + d >= tapStartTime + TAP_MAX_DURATION - 1
       /\ Tick(d)
  \/ \E t \in timers : fingers = <<>> /\ t.at > now /\ Tick(t.at - now)

SpecTapEdge == InitEdge /\ [][NextEdge]_vars

\* the step lifts the one finger of a touch that began on the canvas and
\* arms the note creation timeout
TapArmed ==
  /\ lastOp' = "touchend"
  /\ Len(fingers) = 1 /\ fingers[1].target = Canvas
  /\ \E t \in timers' \ timers : t.kind = "tap" /\ t.at = now + DOUBLE_TAP_DELAY

\* how far the lifted finger is from where it went down, on the longer axis
TapReach ==
  LET dx == Abs(fingers[1].x - tapStartX)
      dy == Abs(fingers[1].y - tapStartY)
  IN  IF dx > dy THEN dx ELSE dy

\* C29 as stated: a one-finger touch on the empty canvas arms the note
\* creation timeout only if it moved less than 10 px on both axes and lasted
\* less than 250 ms; exactly 10 px or exactly 250 ms does not arm it.
C29_TapUnderLimits ==
  [][TapArmed =>
       /\ TapReach < TAP_MAX_MOVE
       /\ now - tapStartTime < TAP_MAX_DURATION]_vars

\* C29: a one-finger touch on the empty canvas arms the note creation
\* timeout only if it ends at most 10 px from its start on both axes and
\* lasted at most 250 ms; 11 px or 251 ms does not arm it.
C29_TapWithinLimits ==
  [][TapArmed =>
       /\ TapReach <= TAP_MAX_MOVE
       /\ now - tapStartTime <= TAP_MAX_DURATION]_vars

\* a touch of exactly 250 ms that ended exactly 10 px away has armed the
\* timeout
C29_EdgeTapArmed ==
  /\ lastOp = "touchend"
  /\ tap.time - tapStartTime = TAP_MAX_DURATION
  /\ Abs(tap.x - tapStartX) = TAP_MAX_MOVE
  /\ \E t \in timers : t.kind = "tap" /\ t.at = now + DOUBLE_TAP_DELAY

\* the step lifts a finger of a two-finger gesture
PinchLift == lastOp' = "touchend" /\ Len(fingers) = 2

\* the step lifts the one finger of a pan: it moved more than TAP_MAX_MOVE
PanLift == lastOp' = "touchend" /\ Len(fingers) = 1 /\ tapMoved

\* C30: a touch gesture yields one intent: lifting a finger of a two-finger
\* gesture arms no note creation timeout, and lifting the finger of a
\* one-finger pan is no double tap and resets no view.
C30_OneIntentPerGesture ==
  [][/\ PinchLift => TapTimers(timers') \subseteq TapTimers(timers)
     /\ PanLift => ~tap'.double]_vars

(***************************************************************************)
(* SpecTapAlone: taps and short drags of one finger on the empty canvas,   *)
(* each timeout fired when it is due.                                      *)
(***************************************************************************)
MaxAloneEvents == 4

\* a tap point, a point 15 px from it, and a point far from both
AlonePoints == {<<50, 50>>, <<65, 50>>, <<200, 50>>}

InitAlone == InitWith(Null, SmallViewport)

NextAlone ==
  \/ \E p \in AlonePoints :
       /\ fingers = <<>>
       /\ Events < MaxAloneEvents
       /\ TouchStart(p[1], p[2], "canvas")
  \/ \E p \in AlonePoints : Events < MaxAloneEvents /\ TouchMove(1, p[1], p[2])
  \/ TouchEnd(1)
  \/ \E t \in timers : Timeout(t)
  \/ \E t \in timers : fingers = <<>> /\ t.at > now /\ Tick(t.at - now)

SpecTapAlone == InitAlone /\ [][NextAlone]_vars

\* the step fires the timeout of the last tap: a tap on the empty canvas
\* that no touch followed, with no text field focused
LoneTapDue ==
  /\ lastOp' = "timeout"
  /\ ev'.arg.kind = "tap" /\ ~ev'.arg.dbl
  /\ fingers = <<>>
  /\ tap # Null /\ tap.target = Canvas /\ ~tap.double
  /\ ev'.arg.at = tap.time + DOUBLE_TAP_DELAY
  /\ now = tap.time + DOUBLE_TAP_DELAY
  /\ focused = NoNote

\* C31: a qualifying one-finger tap on the empty canvas that no second tap
\* follows within 300 ms, with no text field focused, creates exactly one
\* note 300 ms later, whatever gestures came before it.
C31_LoneTapCreatesNote ==
  [][LoneTapDue => Len(state'.notes) = Len(state.notes) + 1]_vars

(***************************************************************************)
(* SpecReload: wheel zooms and pans of the canvas that save the document   *)
(* while the stores fail and recover, and the page loaded again.           *)
(***************************************************************************)
MaxReloadEvents == 4
MaxReloadWheels == 1

\* where the button goes down, and where the pointer moves and the button
\* comes up: canvas points in every board
ReloadPress == <<350, 295>>
ReloadPoints == {<<380, 295>>}

InitReload ==
  \E primary \in StoredPrimary, up \in BOOLEAN :
    InitFrom(primary, Null, up, SmallViewport)

NextReload ==
  \/ \E db \in BOOLEAN, l \in BOOLEAN :
       Events < MaxReloadEvents /\ StoreHealth(db, l)
  \/ \E d \in WheelDeltas :
       /\ Events < MaxReloadEvents
       /\ budget.wheel < MaxReloadWheels
       /\ Wheel(ReloadPress[1], ReloadPress[2], "canvas", d)
  \/ /\ Events < MaxReloadEvents
     /\ MouseDown(ReloadPress[1], ReloadPress[2], "canvas")
  \/ \E p \in ReloadPoints :
       Events < MaxReloadEvents /\ MouseMove(p[1], p[2], "canvas")
  \/ \E p \in ReloadPoints : MouseUp(p[1], p[2], "canvas", FALSE, FALSE)
  \/ Events < MaxReloadEvents /\ Reload

SpecReload == InitReload /\ [][NextReload]_vars

\* the document in memory is the one the last save stored, in a store that
\* can be read
LastSaveReadable ==
  \/ dbUp /\ idb # Null /\ idb = state
  \/ lsUp /\ ls # Null /\ ls = Stringify(state)

\* C32: after saves of which some reached the primary store and some the
\* fallback store, a load yields the document of the most recent save that
\* was stored, never an older one.
C32_LastWriteWins ==
  [][(lastOp' = "reload" /\ LastSaveReadable) => SameDoc(state', state)]_vars

\* C34: no stored document records a pan in progress: the primary record and
\* the fallback entry have isDragging = false, the loaded document has it
\* false, and a mouse move with no button pressed changes no pan.
C34_NoGestureStored ==
  /\ [](idb # Null => ~idb.isDragging)
  /\ [](ls # Null => ~ls.isDragging)
  /\ [](lastOp = "reload" => ~state.isDragging)
  /\ [][(lastOp' = "mousemove" /\ ~mouse.down)
          => state'.panX = state.panX /\ state'.panY = state.panY]_vars

(***************************************************************************)
(* SpecPlace: a click or a tap on the empty canvas, and wheel zooms and    *)
(* pans by mouse and finger while its note creation timeout is pending.    *)
(* One click or tap is pending at a time, and the click or tap at          *)
(* PlaceClick is made in the initial view.                                 *)
(***************************************************************************)
MaxPlaceEvents == 3
MaxPlaceWheels == 1

\* where the canvas is clicked or tapped, and where a pan begins and ends
PlaceClick == <<100, 100>>
PlaceFar == <<300, 200>>
PlaceEnd == <<330, 220>>

InitPlace == InitWith(Null, SmallViewport)

\* the view of the default document
InitialView ==
  state.zoom = I(1) /\ state.panX = I(0) /\ state.panY = I(0)

NextPlace ==
  \/ \E p \in {PlaceClick, PlaceFar} :
       Events < MaxPlaceEvents /\ MouseDown(p[1], p[2], "canvas")
  \/ /\ mouse.down
     /\ Events < MaxPlaceEvents
     /\ MouseMove(PlaceEnd[1], PlaceEnd[2], "canvas")
  \/ \E p \in {PlaceClick, PlaceFar, PlaceEnd} :
       /\ p = <<mouse.x, mouse.y>> => clickTimer = NoTimer
       /\ p = PlaceClick => InitialView
       /\ MouseUp(p[1], p[2], "canvas", FALSE, FALSE)
  \/ \E p \in {PlaceClick, PlaceFar}, d \in WheelDeltas :
       /\ Events < MaxPlaceEvents
       /\ budget.wheel < MaxPlaceWheels
       /\ Wheel(p[1], p[2], "canvas", d)
  \/ \E p \in {PlaceClick, PlaceFar} :
       /\ fingers = <<>>
       /\ Events < MaxPlaceEvents
       /\ TouchStart(p[1], p[2], "canvas")
  \/ Events < MaxPlaceEvents /\ TouchMove(1, PlaceEnd[1], PlaceEnd[2])
  \/ /\ Len(fingers) = 1
     /\ tapMoved \/ tapCreateNoteTimer = NoTimer
     /\ (~tapMoved /\ <<fingers[1].x, fingers[1].y>> = PlaceClick) => InitialView
     /\ TouchEnd(1)
  \/ \E t \in timers : Timeout(t)
  \/ \E t \in timers : t.at > now /\ Tick(t.at - now)

SpecPlace == InitPlace /\ [][NextPlace]_vars

\* the step fires the timeout of the click, or of the tap, at PlaceClick and
\* creates a note
PlacedByClick ==
  /\ lastOp' = "timeout" /\ ev'.arg.kind = "click"
  /\ clickPosition = XY(PlaceClick[1], PlaceClick[2])
PlacedByTap ==
  /\ lastOp' = "timeout" /\ ev'.arg.kind = "tap"
  /\ tapCreateNotePosition = XY(PlaceClick[1], PlaceClick[2])
  /\ Len(state'.notes) = Len(state.notes) + 1

\* the last note of the document is at the world point that was under
\* PlaceClick in the initial view
NoteAtClick(notes) ==
  /\ notes[Len(notes)].x = I(PlaceClick[1])
  /\ notes[Len(notes)].y = I(PlaceClick[2])

\* C33: the note a delayed click or tap creates is at the world point that
\* was under the pointer at the click or tap, also when the view is zoomed
\* or panned between the click and the firing of its timeout.
C33_NoteWhereClicked ==
  [][(PlacedByClick \/ PlacedByTap) => NoteAtClick(state'.notes)]_vars

(***************************************************************************)
(* SpecPanZoom: a mouse pan of the empty canvas with wheel zooms at the    *)
(* pointer between its moves.                                              *)
(***************************************************************************)
MaxPanEvents == 4
MaxPanWheels == 1

\* where the button goes down, and where the pointer moves to
PanPress == <<100, 100>>
PanMoves == {<<130, 120>>, <<200, 100>>, <<100, 160>>}

InitPanZoom == InitWith(Null, SmallViewport)

NextPanZoom ==
  \/ Events < MaxPanEvents /\ MouseDown(PanPress[1], PanPress[2], "canvas")
  \/ \E p \in PanMoves :
       /\ mouse.down
       /\ Events < MaxPanEvents
       /\ MouseMove(p[1], p[2], "canvas")
  \/ \E d \in WheelDeltas :
       /\ mouse.down
       /\ Events < MaxPanEvents
       /\ budget.wheel < MaxPanWheels
       /\ Wheel(ev.x, ev.y, "canvas", d)
  \/ /\ <<ev.x, ev.y>> \in PanMoves
     /\ MouseUp(ev.x, ev.y, "canvas", FALSE, FALSE)

SpecPanZoom == InitPanZoom /\ [][NextPanZoom]_vars

\* the step is a mouse move of a pan in progress; ev is the previous pointer
\* event of the pan
PanMove == lastOp' = "mousemove" /\ mouse.down /\ state.isDragging

\* C35: each mouse move of a pan in progress changes pan by the pointer's
\* screen displacement since the previous pointer event of the pan, also
\* when that event is a wheel zoom: after a move of zero displacement the
\* world point the zoom fixed under the cursor is still there.
C35_PanByDisplacement ==
  [][PanMove =>
       /\ state'.panX = RAdd(state.panX, I(ev'.x - ev.x))
       /\ state'.panY = RAdd(state.panY, I(ev'.y - ev.y))]_vars

====
